---- MODULE Spec2Model ----
(***************************************************************************)
(* A model of four parts of sway-analyzer:                                 *)
(*   - the unused-import detector      (src/detectors/unused_import.rs)    *)
(*   - the missing-logs detector       (src/visitors/missing_logs.rs)      *)
(*   - the scope lookup of AstScope    (src/scope.rs)                      *)
(*   - the type inference of AstScope  (src/scope.rs)                      *)
(* Each part has its own specification (SpecUI, SpecML, SpecScope, SpecTy) *)
(* over the same variables; a specification leaves the other parts'        *)
(* variables unchanged.  SpecBoth is a pass with both detectors.           *)
(***************************************************************************)
EXTENDS FiniteSets, Integers, Sequences, TLC

VARIABLES
    ui_module_states,   \* UnusedImportVisitor.module_states : path -> ModuleState
    ui_phase,           \* walker position per module: "new", "in", "done"
    ui_outcome,         \* per module: result of leave_module ("none", "Ok", "Err")
    ui_visited,         \* walker: the import items of each module already visited
    ml_module_states,   \* MissingLogsVisitor.module_states : path -> ModuleState
    ml_phase,           \* walker position per module: "new", "in", "done"
    ml_fn,              \* walker: the function being walked, or "none"
    ml_blocks,          \* walker: context.blocks, the stack of the blocks being walked
    ml_walked,          \* walker: the import items, functions and blocks already walked,
                        \* and whether a call preceded the import of its callee
    ml_outcome,         \* per block: result of leave_block ("none", "Ok", "Err")
    sc_scopes,          \* the AstScope records; a scope is named by its index
    sc_heap,            \* the Rc<RefCell<AstVariable>> cells; a cell is named by its index
    sc_query,           \* the arguments of the get_variable call made
    sc_found,           \* the handle that call returned, 0 for None
    sc_mutated,         \* TRUE once the holder of the handle has written through it
    ty_expr,            \* the expression handed to the get_expr_ty call made
    ty_result,          \* what that call returned, Abort if it did not return
    report,             \* project.report : the diagnostics sink (a sequence of entries)
    panicked            \* TRUE once a hook has aborted on a failed unwrap()

ui_vars == <<ui_module_states, ui_phase, ui_outcome, ui_visited>>
ml_vars == <<ml_module_states, ml_phase, ml_fn, ml_blocks, ml_walked, ml_outcome>>
sc_vars == <<sc_scopes, sc_heap, sc_query, sc_found, sc_mutated>>
ty_vars == <<ty_expr, ty_result>>
vars == <<ui_vars, ml_vars, sc_vars, ty_vars, report, panicked>>

(***************************************************************************)
(* Bounds of the model.                                                    *)
(***************************************************************************)
\* most entries one module's usage_states map holds
MaxImports == 2
\* most text-matching references checked against one import
MaxCount == 2
\* most storage writes recorded in the blocks of the project
MaxWrites == 2
\* most logging calls recorded in the blocks of the project
MaxLogs == 1
\* most scopes of the scope chain
MaxScopes == 2
\* most variables declared in the scopes
MaxVars == 2

(***************************************************************************)
(* Source text of the analysed project: spans, import items, types,        *)
(* expressions, patterns.                                                  *)
(***************************************************************************)
\* A sway_types::Span: a position in the file and the text it covers.  Two
\* spans are the same HashMap key iff both are equal; the detectors compare
\* texts explicitly with as_str().
Span(pos, text) == [pos |-> pos, text |-> text]
NoSpan == Span(0, "")

Paths == {"m1", "m2"}

\* sway_ast::UseTree, one record shape for every variant.
UName(name) == [kind |-> "Name", name |-> name, alias |-> NoSpan, prefix |-> "", sub |-> <<>>]
URename(name, alias) == [kind |-> "Rename", name |-> name, alias |-> alias, prefix |-> "", sub |-> <<>>]
UGlob == [kind |-> "Glob", name |-> NoSpan, alias |-> NoSpan, prefix |-> "", sub |-> <<>>]
UError == [kind |-> "Error", name |-> NoSpan, alias |-> NoSpan, prefix |-> "", sub |-> <<>>]
UPath(prefix, suffix) == [kind |-> "Path", name |-> NoSpan, alias |-> NoSpan, prefix |-> prefix, sub |-> <<suffix>>]
UGroup(imports) == [kind |-> "Group", name |-> NoSpan, alias |-> NoSpan, prefix |-> "", sub |-> imports]

\* The import items of module m1, in source order:
\*   line 1   use a::b::C;
\*   line 2   use a::B as C;
\*   line 4   use a::{B, b::{C, *}};
\*   line 5   use x::B;        (its span has no line in the project's line table)
\* and of module m2:
\*   line 1   use a::{*, <an import the parser could not parse>};
\*   line 6   use z::C;
UseC == UPath("a", UPath("b", UName(Span(1, "C"))))
UseBasC == UPath("a", URename(Span(2, "B"), Span(3, "C")))
UseGlob == UPath("a", UGroup(<<UGlob, UError>>))
UseGroupBC == UPath("a", UGroup(<<UName(Span(4, "B")), UPath("b", UGroup(<<UName(Span(5, "C")), UGlob>>))>>))
UseB == UPath("x", UName(Span(905, "B")))
UseZC == UPath("z", UName(Span(6, "C")))

\* the spans an import tree registers: the name of every plain leaf and the
\* alias of every renamed leaf
RECURSIVE LeafSpans(_)
LeafSpans(use_tree) ==
    CASE use_tree.kind = "Name" -> {use_tree.name}
      [] use_tree.kind = "Rename" -> {use_tree.alias}
      [] use_tree.kind \in {"Group", "Path"} ->
            UNION {LeafSpans(use_tree.sub[i]) : i \in 1..Len(use_tree.sub)}
      [] OTHER -> {}

\* the walker's import items, by name, and the tree of each
UseItems(path) ==
    IF path = "m1"
    THEN {"UseC", "UseBasC", "UseGroupBC", "UseB"}
    ELSE {"UseGlob", "UseZC"}
UseTreeOf(item) ==
    CASE item = "UseC" -> UseC
      [] item = "UseBasC" -> UseBasC
      [] item = "UseGlob" -> UseGlob
      [] item = "UseGroupBC" -> UseGroupBC
      [] item = "UseB" -> UseB
      [] item = "UseZC" -> UseZC

\* The line table of the project's files: the import leaves at positions 2 and
\* 3 are on line 2, those at 4 and 5 on line 4, every other node is at the
\* start of its line; a span at or beyond LineTableEnd has no line.
SourceLine(pos) ==
    CASE pos \in {2, 3} -> 2
      [] pos \in {4, 5} -> 4
      [] OTHER -> pos
LineTableEnd == 900

\* Project::span_to_line(path, span) -> Result<usize, Error>
span_to_line(path, span) ==
    IF span.pos >= LineTableEnd
    THEN [ok |-> FALSE, line |-> 0]
    ELSE [ok |-> TRUE, line |-> SourceLine(span.pos)]

\* sway_ast::Expr, one record shape for every variant: `name` and `suffix` are the
\* prefix segment and the suffix segments of a path expression, `text` the text of
\* the expression's span, `sub` the operands (of a call: the callee, then the
\* arguments).
EPath(name, suffix, text) == [kind |-> "Path", name |-> name, suffix |-> suffix, text |-> text, sub |-> <<>>]
EFuncApp(func, args, text) == [kind |-> "FuncApp", name |-> "", suffix |-> <<>>, text |-> text, sub |-> <<func>> \o args]
EOther(operands, text) == [kind |-> "Other", name |-> "", suffix |-> <<>>, text |-> text, sub |-> operands]

\* sway_ast::Pattern
PVar(name) == [kind |-> "Var", path |-> name, sub |-> <<>>]
PConstructor(path, args) == [kind |-> "Constructor", path |-> path, sub |-> args]
PStruct(path, fields) == [kind |-> "Struct", path |-> path, sub |-> fields]
PTuple(elems) == [kind |-> "Tuple", path |-> "", sub |-> elems]

\* sway_ast::Ty, one record shape for every variant.  Of a path type: `name` is
\* prefix.name, `generics` the generic arguments of the prefix, `root` the type of
\* a qualified root `<T as Trait>::` (empty when absent) and `as_trait` its trait.
TPath(name, generics, root, as_trait) ==
    [kind |-> "Path", name |-> name, generics |-> generics, root |-> root,
     as_trait |-> as_trait, elems |-> <<>>, length |-> <<>>]
TPlain(name) == TPath(name, <<>>, <<>>, <<>>)
TTuple(elems) ==
    [kind |-> "Tuple", name |-> "", generics |-> <<>>, root |-> <<>>,
     as_trait |-> <<>>, elems |-> elems, length |-> <<>>]
TArray(ty, length) ==
    [kind |-> "Array", name |-> "", generics |-> <<>>, root |-> <<>>,
     as_trait |-> <<>>, elems |-> <<ty>>, length |-> <<length>>]
TBox(kind, ty) ==
    [kind |-> kind, name |-> "", generics |-> <<>>, root |-> <<>>,
     as_trait |-> <<>>, elems |-> <<ty>>, length |-> <<>>]
TLeaf(kind) ==
    [kind |-> kind, name |-> "", generics |-> <<>>, root |-> <<>>,
     as_trait |-> <<>>, elems |-> <<>>, length |-> <<>>]

(***************************************************************************)
(* std::collections::HashMap, as the sequence of its entries in iteration  *)
(* order.  The order is unspecified: an insertion of a new key may leave   *)
(* the entries in any order.                                               *)
(***************************************************************************)
RECURSIVE Orders(_)
Orders(seq) ==
    IF seq = <<>>
    THEN {<<>>}
    ELSE LET last == seq[Len(seq)]
         IN  UNION {{SubSeq(p, 1, k - 1) \o <<last>> \o SubSeq(p, k, Len(p)) : k \in 1..Len(seq)} :
                        p \in Orders(SubSeq(seq, 1, Len(seq) - 1))}

\* an insertion that takes two spans with the same text for the same key
HashInsertByText(map, key, value) ==
    IF \E i \in 1..Len(map) : map[i].span.text = key.text
    THEN {[map EXCEPT ![CHOOSE i \in 1..Len(map) : map[i].span.text = key.text] = value]}
    ELSE Orders(Append(map, value))

\* HashMap::insert(key, value): the set of maps that may result.
HashInsert(map, key, value) ==
    IF \E i \in 1..Len(map) : map[i].span = key
    THEN {[map EXCEPT ![CHOOSE i \in 1..Len(map) : map[i].span = key] = value]}
    ELSE Orders(Append(map, value))

\* visit_module of both detectors:
\*   if !self.module_states.contains_key(context.path) {
\*       self.module_states.insert(context.path.into(), ModuleState::default());
\*   }
visit_module_replacing(module_states, path, default) ==
    (path :> default) @@ module_states
visit_module(module_states, path, default) ==
    IF path \in DOMAIN module_states
    THEN module_states
    ELSE (path :> default) @@ module_states

(***************************************************************************)
(* unused_import.rs: ModuleState                                           *)
(***************************************************************************)
\* ModuleState::default().  `probes` and the field `born` of an entry are
\* history, not part of the program: probes[text] is the number of references
\* with that text that check_span_usage has matched, born the value of probes
\* when the entry was inserted.
UiModuleStateDefault == [usage_states |-> <<>>, probes |-> <<>>]

ProbesIn(probes, text) == IF text \in DOMAIN probes THEN probes[text] ELSE 0
Probes(state, text) == ProbesIn(state.probes, text)

\* the number of matched references with `text` checked since entry i was inserted
RefsSince(state, i, text) ==
    Probes(state, text) - ProbesIn(state.usage_states[i].born, text)

\* the number of references with the text of entry i checked since its insertion
SeenSince(state, i) == RefsSince(state, i, state.usage_states[i].span.text)

\* self.usage_states.insert(span, 0), on each module state of `states`
InsertUsage(states, span) ==
    UNION {{[st EXCEPT !.usage_states = us] :
                us \in HashInsert(st.usage_states, span,
                                  [span |-> span, count |-> 0, born |-> st.probes])} :
            st \in states}

\* ModuleState::import_use_tree, on the set `states` of module states the
\* insertions so far may have produced.
RECURSIVE import_use_tree(_, _)
RECURSIVE import_group(_, _, _)

\* the key a Rename leaf inserts
rename_key_name(use_tree) == use_tree.name
rename_key(use_tree) == use_tree.alias

import_group_first_only(states, imports, i) ==
    IF i > Len(imports) \/ i > 1
    THEN states
    ELSE import_group(import_use_tree(states, imports[i]), imports, i + 1)
import_group(states, imports, i) ==
    IF i > Len(imports)
    THEN states
    ELSE import_group(import_use_tree(states, imports[i]), imports, i + 1)

import_use_tree_counting_globs(states, use_tree) ==
    CASE use_tree.kind = "Group" -> import_group(states, use_tree.sub, 1)
      [] use_tree.kind = "Name" -> InsertUsage(states, use_tree.name)
      [] use_tree.kind = "Rename" -> InsertUsage(states, rename_key(use_tree))
      [] use_tree.kind = "Glob" -> InsertUsage(states, Span(9, "*"))
      [] use_tree.kind = "Path" -> import_use_tree(states, use_tree.sub[1])
      [] use_tree.kind = "Error" -> states
import_use_tree(states, use_tree) ==
    CASE use_tree.kind = "Group" -> import_group(states, use_tree.sub, 1)
      [] use_tree.kind = "Name" -> InsertUsage(states, use_tree.name)
      [] use_tree.kind = "Rename" -> InsertUsage(states, rename_key(use_tree))
      [] use_tree.kind = "Glob" -> states
      [] use_tree.kind = "Path" -> import_use_tree(states, use_tree.sub[1])
      [] use_tree.kind = "Error" -> states

\* usage_states.iter_mut().find(|(s, _)| s.as_str() == span.as_str()): the index
\* of the first entry, in iteration order, whose text is `text`; 0 when none.
FindUsage(usage_states, text) ==
    IF \E i \in 1..Len(usage_states) : usage_states[i].span.text = text
    THEN CHOOSE i \in 1..Len(usage_states) :
            /\ usage_states[i].span.text = text
            /\ \A j \in 1..(i - 1) : usage_states[j].span.text # text
    ELSE 0

\* a check that counts a reference on every entry spelled like it
check_span_usage_every_match(state, text) ==
    IF FindUsage(state.usage_states, text) = 0
    THEN state
    ELSE [usage_states |-> [i \in 1..Len(state.usage_states) |->
                                IF state.usage_states[i].span.text = text
                                THEN [state.usage_states[i] EXCEPT !.count = @ + 1]
                                ELSE state.usage_states[i]],
          probes |-> (text :> Probes(state, text) + 1) @@ state.probes]
\* ModuleState::check_span_usage
check_span_usage_uncounted(state, text) ==
    LET found == FindUsage(state.usage_states, text)
    IN  IF found = 0
        THEN state
        ELSE [usage_states |-> state.usage_states,
              probes |-> (text :> Probes(state, text) + 1) @@ state.probes]
check_span_usage(state, text) ==
    LET found == FindUsage(state.usage_states, text)
    IN  IF found = 0
        THEN state
        ELSE [usage_states |-> [state.usage_states EXCEPT ![found].count = @ + 1],
              probes |-> (text :> Probes(state, text) + 1) @@ state.probes]

\* utils::map_expr: the expression and the expressions inside it, parents first.
RECURSIVE map_expr(_)
RECURSIVE map_exprs(_, _)
map_exprs(exprs, i) ==
    IF i > Len(exprs) THEN <<>> ELSE map_expr(exprs[i]) \o map_exprs(exprs, i + 1)
map_expr(expr) == <<expr>> \o map_exprs(expr.sub, 1)

\* utils::map_pattern: the pattern and the patterns inside it, parents first.
RECURSIVE map_pattern(_)
RECURSIVE map_patterns(_, _)
map_patterns(patterns, i) ==
    IF i > Len(patterns) THEN <<>> ELSE map_pattern(patterns[i]) \o map_patterns(patterns, i + 1)
map_pattern(pattern) == <<pattern>> \o map_patterns(pattern.sub, 1)

\* ModuleState::check_expr_usage
RECURSIVE check_expr_list(_, _, _)
check_expr_list(state, exprs, i) ==
    IF i > Len(exprs)
    THEN state
    ELSE check_expr_list(
            IF exprs[i].kind = "Path" THEN check_span_usage(state, exprs[i].name) ELSE state,
            exprs, i + 1)
check_expr_usage(state, expr) == check_expr_list(state, map_expr(expr), 1)

\* ModuleState::check_pattern_usage
RECURSIVE check_pattern_list(_, _, _)
check_pattern_list(state, patterns, i) ==
    IF i > Len(patterns)
    THEN state
    ELSE check_pattern_list(
            IF patterns[i].kind \in {"Constructor", "Struct"}
            THEN check_span_usage(state, patterns[i].path)
            ELSE state,
            patterns, i + 1)
check_pattern_usage(state, pattern) == check_pattern_list(state, map_pattern(pattern), 1)

\* ModuleState::check_path_type_usage and ModuleState::check_ty_usage
RECURSIVE check_path_type_usage(_, _)
RECURSIVE check_ty_usage(_, _)
RECURSIVE check_ty_list(_, _, _)
check_ty_list(state, tys, i) ==
    IF i > Len(tys) THEN state ELSE check_ty_list(check_ty_usage(state, tys[i]), tys, i + 1)

check_path_type_usage(state, path) ==
    LET s1 == check_span_usage(state, path.name)
        s2 == check_ty_list(s1, path.generics, 1)
    IN  IF path.root = <<>>
        THEN s2
        ELSE LET s3 == check_ty_usage(s2, path.root[1])
             IN  IF path.as_trait = <<>>
                 THEN s3
                 ELSE check_path_type_usage(s3, path.as_trait[1])

check_ty_usage(state, ty) ==
    CASE ty.kind = "Path" -> check_path_type_usage(state, ty)
      [] ty.kind = "Tuple" -> check_ty_list(state, ty.elems, 1)
      [] ty.kind = "Array" -> check_expr_usage(check_ty_usage(state, ty.elems[1]), ty.length[1])
      [] ty.kind \in {"StringSlice", "StringArray", "Infer"} -> state
      [] ty.kind \in {"Ptr", "Slice"} -> check_ty_usage(state, ty.elems[1])

(***************************************************************************)
(* Constructs of the analysed modules that the walker hands to the hooks.  *)
(***************************************************************************)
NameExpr(name) == EPath(name, <<>>, name)

\* expression statements
UiExprs == {NameExpr("C"), EFuncApp(NameExpr("B"), <<NameExpr("x")>>, "B(x)")}

\* the types of struct fields, enum fields, type aliases and trait types
UiStructFieldTys == {TPlain("C"), TPath("Vec", <<TPlain("B")>>, <<>>, <<>>)}
UiEnumFieldTys == {TTuple(<<TPlain("B"), TLeaf("StringSlice")>>)}
UiTypeAliasTys == {TArray(TLeaf("Infer"), NameExpr("C")), TBox("Ptr", TPlain("B"))}
UiTraitTypeTys == {<<>>, <<TPath("Item", <<>>, <<TPlain("C")>>, <<TPlain("B")>>)>>}

\* let statements: pattern, optional type (a sequence of at most one), value
UiLets ==
    {[pattern |-> PConstructor("C", <<PVar("v")>>), ty_opt |-> <<TPlain("x")>>, expr |-> NameExpr("x")],
     [pattern |-> PTuple(<<PStruct("B", <<>>), PVar("w")>>), ty_opt |-> <<>>, expr |-> NameExpr("x")]}

\* function signatures: the bounds of the where clause (empty when there is
\* none; each a prefix path type and the suffix path types after `+`), the
\* kind of the argument list and the arguments
UiFns ==
    {[where_bounds |-> <<>>, args_kind |-> "Static",
      args |-> <<[pattern |-> PVar("a"), ty |-> TPlain("C")]>>],
     [where_bounds |-> <<[prefix |-> TPlain("x"), suffixes |-> <<TPlain("B")>>]>>,
      args_kind |-> "NonStatic", args |-> <<[pattern |-> PVar("a"), ty |-> TPlain("x")]>>],
     [where_bounds |-> <<[prefix |-> TPlain("C"), suffixes |-> <<>>]>>,
      args_kind |-> "SelfOnly", args |-> <<>>]}

\* traits: optional super traits, where-clause bounds
UiTraitItems ==
    {[super_traits |-> <<>>, where_bounds |-> <<[prefix |-> TPlain("C"), suffixes |-> <<>>]>>],
     [super_traits |-> <<[prefix |-> TPlain("B"), suffixes |-> <<TPlain("x")>>]>>, where_bounds |-> <<>>]}

\* constants: optional type, optional value
UiConsts ==
    {[ty_opt |-> <<TPlain("C")>>, expr_opt |-> <<>>],
     [ty_opt |-> <<>>, expr_opt |-> <<NameExpr("B")>>]}

\* storage fields and configurable fields: type and initializer
UiStorageFields == {[ty |-> TPlain("x"), initializer |-> NameExpr("C")]}
UiConfigurableFields == {[ty |-> TPlain("B"), initializer |-> NameExpr("x")]}

(***************************************************************************)
(* The diagnostics sink.                                                   *)
(***************************************************************************)
\* format!("Found unused import: `{}`. Consider removing any unused imports.", ..)
\* (a TLA+ string cannot hold a backquote: ' stands for it)
UnusedImportMessage(text) ==
    "Found unused import: '" \o text \o "'. Consider removing any unused imports."

\* Report::add_entry(path, line, severity, message)
add_entry(entries, path, line, severity, message) ==
    Append(entries, [path |-> path, line |-> line, severity |-> severity, message |-> message])

(***************************************************************************)
(* unused_import.rs: impl AstVisitor for UnusedImportVisitor               *)
(***************************************************************************)
\* The walker hands module `path` to the hooks: one module at a time, each
\* module once, m1 before m2.
UiActive(path) ==
    /\ ~panicked
    /\ ui_phase[path] # "done"
    /\ path = "m2" => ui_phase["m1"] = "done"

UiWithinBounds(state) ==
    /\ Len(state.usage_states) <= MaxImports
    /\ \A text \in DOMAIN state.probes : state.probes[text] <= MaxCount

\* the module state a hook body works on (read only where the state exists)
UiState(path) ==
    IF path \in DOMAIN ui_module_states THEN ui_module_states[path] ELSE UiModuleStateDefault

\* a hook that reports as soon as it changes the module state
UiOnModuleStateReporting(path, nexts) ==
    /\ UiActive(path)
    /\ IF path \in DOMAIN ui_module_states
       THEN /\ \E next \in nexts :
                /\ UiWithinBounds(next)
                /\ ui_module_states' = [ui_module_states EXCEPT ![path] = next]
                /\ report' = IF next = ui_module_states[path]
                             THEN report
                             ELSE add_entry(report, path, 1, "Low", UnusedImportMessage("C"))
            /\ UNCHANGED panicked
       ELSE /\ panicked' = TRUE
            /\ UNCHANGED <<ui_module_states, report>>
    /\ UNCHANGED <<ui_phase, ui_outcome, ml_vars, sc_vars, ty_vars>>

\* a hook that makes up the module state it does not find and goes on
UiOnModuleStateOrDefault(path, nexts) ==
    /\ UiActive(path)
    /\ \E next \in nexts :
        /\ UiWithinBounds(next)
        /\ ui_module_states' = (path :> next) @@ ui_module_states
    /\ UNCHANGED <<panicked, ui_phase, ui_outcome, report, ml_vars, sc_vars, ty_vars>>

\* a hook whose body works on the state of every module entered so far
UiOnEveryModuleState(path, nexts) ==
    /\ UiActive(path)
    /\ IF path \in DOMAIN ui_module_states
       THEN /\ \E next \in nexts :
                /\ UiWithinBounds(next)
                /\ ui_module_states' = [p \in DOMAIN ui_module_states |-> next]
            /\ UNCHANGED panicked
       ELSE /\ panicked' = TRUE
            /\ UNCHANGED ui_module_states
    /\ UNCHANGED <<ui_phase, ui_outcome, report, ml_vars, sc_vars, ty_vars>>

\* self.module_states.get_mut(context.path).unwrap(), followed by a hook body
\* that leaves the module state as one of `nexts`
UiOnModuleState(path, nexts) ==
    /\ UiActive(path)
    /\ IF path \in DOMAIN ui_module_states
       THEN /\ \E next \in nexts :
                /\ UiWithinBounds(next)
                /\ ui_module_states' = [ui_module_states EXCEPT ![path] = next]
            /\ UNCHANGED panicked
       ELSE /\ panicked' = TRUE
            /\ UNCHANGED ui_module_states
    /\ UNCHANGED <<ui_phase, ui_outcome, report, ml_vars, sc_vars, ty_vars>>

\* visit_module
UiVisitModule(path) ==
    /\ UiActive(path)
    /\ ui_module_states' = visit_module(ui_module_states, path, UiModuleStateDefault)
    /\ ui_phase' = [ui_phase EXCEPT ![path] = "in"]
    /\ UNCHANGED <<ui_outcome, ui_visited, report, panicked, ml_vars, sc_vars, ty_vars>>

\* the loop of leave_module from entry i on: the sink and whether every
\* span_to_line succeeded
RECURSIVE report_unused(_, _, _, _)
\* a loop that goes on to the next entry after a failed span_to_line
RECURSIVE report_unused_continuing(_, _, _, _)
report_unused_continuing(entries, path, usage_states, i) ==
    IF i > Len(usage_states)
    THEN [report |-> entries, ok |-> TRUE]
    ELSE IF usage_states[i].count = 0
         THEN LET line == span_to_line(path, usage_states[i].span)
              IN  IF line.ok
                  THEN report_unused_continuing(
                            add_entry(entries, path, line.line, "Low",
                                      UnusedImportMessage(usage_states[i].span.text)),
                            path, usage_states, i + 1)
                  ELSE [report |-> report_unused_continuing(entries, path, usage_states, i + 1).report,
                        ok |-> FALSE]
         ELSE report_unused_continuing(entries, path, usage_states, i + 1)

\* if *count == 0
IsUnusedInverted(count) == count # 0
IsUnused(count) == count = 0
report_unused(entries, path, usage_states, i) ==
    IF i > Len(usage_states)
    THEN [report |-> entries, ok |-> TRUE]
    ELSE IF IsUnused(usage_states[i].count)
         THEN LET line == span_to_line(path, usage_states[i].span)
              IN  IF line.ok
                  THEN report_unused(
                            add_entry(entries, path, line.line, "Low",
                                      UnusedImportMessage(usage_states[i].span.text)),
                            path, usage_states, i + 1)
                  ELSE [report |-> entries, ok |-> FALSE]
         ELSE report_unused(entries, path, usage_states, i + 1)

\* leave_module
UiLeaveModule(path) ==
    /\ UiActive(path)
    /\ IF path \in DOMAIN ui_module_states
       THEN LET done == report_unused(report, path, ui_module_states[path].usage_states, 1)
            IN  /\ report' = done.report
                /\ ui_outcome' = [ui_outcome EXCEPT ![path] = IF done.ok THEN "Ok" ELSE "Err"]
                /\ ui_phase' = [ui_phase EXCEPT ![path] = "done"]
                /\ UNCHANGED panicked
       ELSE /\ panicked' = TRUE
            /\ UNCHANGED <<report, ui_outcome, ui_phase>>
    /\ UNCHANGED <<ui_module_states, ui_visited, ml_vars, sc_vars, ty_vars>>

\* visit_use
UiVisitUse(path, item) ==
    /\ item \notin ui_visited[path]
    /\ Len(UiState(path).usage_states) + Cardinality(LeafSpans(UseTreeOf(item))) <= MaxImports
    /\ UiOnModuleState(path, import_use_tree({UiState(path)}, UseTreeOf(item)))
    /\ ui_visited' = [ui_visited EXCEPT ![path] = @ \cup {item}]

\* visit_struct_field
UiVisitStructField(path, ty) ==
    /\ UiOnModuleState(path, {check_ty_usage(UiState(path), ty)})
    /\ UNCHANGED ui_visited

\* visit_enum_field
UiVisitEnumField(path, ty) ==
    /\ UiOnModuleState(path, {check_ty_usage(UiState(path), ty)})
    /\ UNCHANGED ui_visited

\* the bounds `prefix + suffix + ...` of a where clause or of super traits
RECURSIVE check_path_types(_, _, _)
check_path_types(state, paths, i) ==
    IF i > Len(paths)
    THEN state
    ELSE check_path_types(check_path_type_usage(state, paths[i]), paths, i + 1)
check_traits(state, traits) ==
    check_path_types(check_path_type_usage(state, traits.prefix), traits.suffixes, 1)
RECURSIVE check_bounds(_, _, _)
check_bounds(state, bounds, i) ==
    IF i > Len(bounds)
    THEN state
    ELSE check_bounds(check_traits(state, bounds[i]), bounds, i + 1)

\* the argument loop of visit_fn
RECURSIVE check_fn_args(_, _, _)
check_fn_args(state, args, i) ==
    IF i > Len(args)
    THEN state
    ELSE check_fn_args(
            check_ty_usage(check_pattern_usage(state, args[i].pattern), args[i].ty),
            args, i + 1)

\* visit_fn
UiVisitFn(path, fn) ==
    /\ UiOnModuleState(path,
            LET bounded == check_bounds(UiState(path), fn.where_bounds, 1)
            IN  IF fn.args_kind \in {"Static", "NonStatic"}
                THEN {check_fn_args(bounded, fn.args, 1)}
                ELSE {bounded})
    /\ UNCHANGED ui_visited

\* an Option as a sequence of at most one element
CheckTyOpt(state, ty_opt) ==
    IF ty_opt = <<>> THEN state ELSE check_ty_usage(state, ty_opt[1])
CheckExprOpt(state, expr_opt) ==
    IF expr_opt = <<>> THEN state ELSE check_expr_usage(state, expr_opt[1])

\* visit_statement_let
UiVisitStatementLet(path, let) ==
    /\ UiOnModuleState(path,
            {check_expr_usage(
                CheckTyOpt(check_pattern_usage(UiState(path), let.pattern), let.ty_opt),
                let.expr)})
    /\ UNCHANGED ui_visited

\* visit_expr
UiVisitExpr(path, expr) ==
    /\ UiOnModuleState(path, {check_expr_usage(UiState(path), expr)})
    /\ UNCHANGED ui_visited

\* visit_trait
UiVisitTrait(path, trait) ==
    /\ UiOnModuleState(path,
            {check_bounds(check_bounds(UiState(path), trait.super_traits, 1), trait.where_bounds, 1)})
    /\ UNCHANGED ui_visited

\* visit_const
UiVisitConst(path, const) ==
    /\ UiOnModuleState(path,
            {CheckExprOpt(CheckTyOpt(UiState(path), const.ty_opt), const.expr_opt)})
    /\ UNCHANGED ui_visited

\* visit_storage_field
UiVisitStorageField(path, field) ==
    /\ UiOnModuleState(path,
            {check_expr_usage(check_ty_usage(UiState(path), field.ty), field.initializer)})
    /\ UNCHANGED ui_visited

\* visit_configurable_field
UiVisitConfigurableField(path, field) ==
    /\ UiOnModuleState(path,
            {check_expr_usage(check_ty_usage(UiState(path), field.ty), field.initializer)})
    /\ UNCHANGED ui_visited

\* visit_type_alias
UiVisitTypeAlias(path, ty) ==
    /\ UiOnModuleState(path, {check_ty_usage(UiState(path), ty)})
    /\ UNCHANGED ui_visited

\* visit_trait_type
UiVisitTraitType(path, ty_opt) ==
    /\ UiOnModuleState(path, {CheckTyOpt(UiState(path), ty_opt)})
    /\ UNCHANGED ui_visited

\* UnusedImportVisitor::default(), an empty report, no module walked
InitUI ==
    /\ ui_module_states = <<>>
    /\ ui_phase = [path \in Paths |-> "new"]
    /\ ui_outcome = [path \in Paths |-> "none"]
    /\ ui_visited = [path \in Paths |-> {}]

NextUI ==
    \E path \in Paths :
        \/ UiVisitModule(path)
        \/ UiLeaveModule(path)
        \/ \E item \in UseItems(path) : UiVisitUse(path, item)
        \/ \E ty \in UiStructFieldTys : UiVisitStructField(path, ty)
        \/ \E ty \in UiEnumFieldTys : UiVisitEnumField(path, ty)
        \/ \E fn \in UiFns : UiVisitFn(path, fn)
        \/ \E let \in UiLets : UiVisitStatementLet(path, let)
        \/ \E expr \in UiExprs : UiVisitExpr(path, expr)
        \/ \E trait \in UiTraitItems : UiVisitTrait(path, trait)
        \/ \E const \in UiConsts : UiVisitConst(path, const)
        \/ \E field \in UiStorageFields : UiVisitStorageField(path, field)
        \/ \E field \in UiConfigurableFields : UiVisitConfigurableField(path, field)
        \/ \E ty \in UiTypeAliasTys : UiVisitTypeAlias(path, ty)
        \/ \E ty_opt \in UiTraitTypeTys : UiVisitTraitType(path, ty_opt)


(***************************************************************************)
(* missing_logs.rs: the analysed program.                                  *)
(***************************************************************************)
\* The import items handed to visit_use.  Module m1 imports the logging
\* function under its own name and module m2 under the alias `emit`; the
\* detector ignores the other items.
\*   use std::logging::log;            use std::logging::log as emit;
\*   use std::logging::{log};          use std::logging::other;
\*   use std::logging::other as log;   use std::other::log;
\*   use core::logging::log;           use std::log;          use log;
MlLoggingUses == {"UseLog", "UseLogAs"}
MlIgnoredUses ==
    {"UseLogGroup", "UseLoggingOther", "UseOtherAsLog", "UseStdOtherLog",
     "UseCoreLog", "UseStdLog", "UseBareLog"}
MlUseItems(path) == IF path = "m1" THEN {"UseLog"} ELSE {"UseLogAs"} \cup MlIgnoredUses

MlUseTreeOf(item) ==
    CASE item = "UseLog" -> UPath("std", UPath("logging", UName(Span(1, "log"))))
      [] item = "UseLogAs" ->
            UPath("std", UPath("logging", URename(Span(2, "log"), Span(2, "emit"))))
      [] item = "UseLogGroup" ->
            UPath("std", UPath("logging", UGroup(<<UName(Span(3, "log"))>>)))
      [] item = "UseLoggingOther" -> UPath("std", UPath("logging", UName(Span(4, "other"))))
      [] item = "UseOtherAsLog" ->
            UPath("std", UPath("logging", URename(Span(5, "other"), Span(5, "log"))))
      [] item = "UseStdOtherLog" -> UPath("std", UPath("other", UName(Span(6, "log"))))
      [] item = "UseCoreLog" -> UPath("core", UPath("logging", UName(Span(7, "log"))))
      [] item = "UseStdLog" -> UPath("std", UName(Span(8, "log")))
      [] OTHER -> UName(Span(9, "log"))

\* The functions and their blocks.  Module m1 has no function; function f of
\* module m2 has a body with two sibling blocks nested in it:
\*   fn f() { .. if c { .. } else { .. } .. }
MlFns(path) == IF path = "m1" THEN {} ELSE {"f"}
MlBlocks(fn) == {"f.body", "f.then", "f.else"}
MlAllBlocks == MlBlocks("f")
BlockFn(block) == "f"
BlockParent(block) == IF block \in {"f.then", "f.else"} THEN "f.body" ELSE "none"
\* the first line of each block; the nodes of a block are on the lines after it
BlockBase(block) ==
    CASE block = "f.body" -> 10
      [] block = "f.then" -> 20
      [] OTHER -> 30
block_span(block) == Span(BlockBase(block), block)
fn_signature(fn) == Span(BlockBase(fn \o ".body"), "fn " \o fn \o "()")

\* sway_ast::Statement at a line of the source: a storage write
\* `storage.<field> = <value>` (or `storage.<field>.write(<value>)`), or any
\* other statement.  A synthetic statement has spans outside the line table.
StorageWrite(field, value, synthetic) ==
    [kind |-> "StorageWrite", field |-> field, value |-> value, synthetic |-> synthetic]
OtherStatement ==
    [kind |-> "Other", field |-> "", value |-> "", synthetic |-> FALSE]
MlStatements ==
    {StorageWrite("owner", "x", FALSE), StorageWrite("lost", "y", TRUE), OtherStatement}

\* utils::statement_to_storage_write_idents(statement): the spans of the
\* storage field and of the written value, <<>> for None
statement_to_storage_write_idents(statement, line) ==
    IF statement.kind = "StorageWrite"
    THEN LET pos == IF statement.synthetic THEN LineTableEnd + line ELSE line
         IN  <<Span(pos, statement.field), Span(pos, statement.value)>>
    ELSE <<>>

\* The expressions handed to visit_expr:
\*   log(x)  log(y)  emit(x)  std::logging::log(x)  std::logging::log(y)
\*   log(x, y)  log()  emit(x, y)  emit()  std::logging::log(x, y)  foo(x)  x  (h)(x)
\*   std::logging::other(x)  std::other::log(x)  core::logging::log(x)
\*   logging::log(x)  std::logging::log::log(x)
MlCall(name, suffix, args) == EFuncApp(EPath(name, suffix, name), args, name \o "(..)")
MlExprs ==
    {MlCall("log", <<>>, <<NameExpr("x")>>),
     MlCall("emit", <<>>, <<NameExpr("x")>>),
     MlCall("emit", <<>>, <<NameExpr("y")>>),
     MlCall("std", <<"logging", "log">>, <<NameExpr("x")>>),
     MlCall("std", <<"logging", "log">>, <<NameExpr("y")>>),
     MlCall("log", <<>>, <<NameExpr("x"), NameExpr("y")>>),
     MlCall("log", <<>>, <<>>),
     MlCall("emit", <<>>, <<NameExpr("x"), NameExpr("y")>>),
     MlCall("emit", <<>>, <<>>),
     MlCall("std", <<"logging", "log">>, <<NameExpr("x"), NameExpr("y")>>),
     MlCall("foo", <<>>, <<NameExpr("x")>>),
     NameExpr("x"),
     EFuncApp(EOther(<<NameExpr("h")>>, "(h)"), <<NameExpr("x")>>, "(h)(x)"),
     MlCall("std", <<"logging", "other">>, <<NameExpr("x")>>),
     MlCall("std", <<"other", "log">>, <<NameExpr("x")>>),
     MlCall("core", <<"logging", "log">>, <<NameExpr("x")>>),
     MlCall("logging", <<"log">>, <<NameExpr("x")>>),
     MlCall("std", <<"logging", "log", "log">>, <<NameExpr("x")>>)}

(***************************************************************************)
(* missing_logs.rs: ModuleState, FnState, BlockState and the hook bodies.  *)
(***************************************************************************)
\* ModuleState::default(), FnState::default(), BlockState::default()
MlModuleStateDefault == [log_names |-> <<>>, fn_states |-> <<>>]
FnStateDefault == [block_states |-> <<>>]
BlockStateDefault == [written |-> <<>>, logged |-> <<>>]

\* the module state a hook body works on (read only where the state exists)
MlState(path) ==
    IF path \in DOMAIN ml_module_states THEN ml_module_states[path] ELSE MlModuleStateDefault

\* fn_states.get_mut(&fn_signature) is Some
HasFnState(path, signature) ==
    /\ path \in DOMAIN ml_module_states
    /\ signature \in DOMAIN ml_module_states[path].fn_states

\* block_states.get_mut(block_span) is Some
HasBlockState(path, signature, span) ==
    /\ HasFnState(path, signature)
    /\ span \in DOMAIN ml_module_states[path].fn_states[signature].block_states

MlBlockState(path, block) ==
    IF HasBlockState(path, fn_signature(BlockFn(block)), block_span(block))
    THEN ml_module_states[path].fn_states[fn_signature(BlockFn(block))].block_states[block_span(block)]
    ELSE BlockStateDefault

\* a leaf that binds the logging function under its original name only
use_log_name_original(leaf) ==
    IF leaf.kind \in {"Name", "Rename"} /\ leaf.name.text = "log"
    THEN <<leaf.name.text>>
    ELSE <<>>

\* the local name a leaf of `use std::logging::..` gives to the logging
\* function, <<>> where the leaf does not import it
use_log_name(leaf) ==
    CASE leaf.kind = "Name" /\ leaf.name.text = "log" -> <<leaf.name.text>>
      [] leaf.kind = "Rename" /\ leaf.name.text = "log" -> <<leaf.alias.text>>
      [] OTHER -> <<>>

\* visit_use, after the module state is found
ml_visit_use(module_state, tree) ==
    IF tree.kind # "Path" THEN module_state
    ELSE IF tree.prefix # "std" THEN module_state
    ELSE LET suffix == tree.sub[1]
         IN  IF suffix.kind # "Path" THEN module_state
             ELSE IF suffix.prefix # "logging" THEN module_state
             ELSE [module_state EXCEPT !.log_names = @ \o use_log_name(suffix.sub[1])]

\* visit_fn, after the module state is found
ml_visit_fn(module_state, signature) ==
    IF signature \in DOMAIN module_state.fn_states
    THEN module_state
    ELSE [module_state EXCEPT !.fn_states = (signature :> FnStateDefault) @@ @]

\* visit_block, after the module and function states are found
ml_visit_block(module_state, signature, span) ==
    [module_state EXCEPT !.fn_states[signature].block_states =
        IF span \in DOMAIN @ THEN @ ELSE (span :> BlockStateDefault) @@ @]

\* context.blocks.last()
last_block_first(blocks) == blocks[1]
last_block(blocks) == blocks[Len(blocks)]

\* visit_statement, after the module, function and block states are found
ml_visit_statement(module_state, signature, blocks, statement, line) ==
    LET idents == statement_to_storage_write_idents(statement, line)
    IN  IF idents = <<>> THEN module_state
        ELSE [module_state EXCEPT
                !.fn_states[signature].block_states[last_block(blocks)].written =
                    Append(@, idents)]

\* visit_expr without its `else if path.suffix.len() == 2` branch
ml_visit_expr_imports_only(module_state, signature, blocks, expr, line) ==
    IF expr.kind # "FuncApp" THEN module_state
    ELSE LET path == expr.sub[1]
             log_args == Tail(expr.sub)
         IN  IF path.kind # "Path" THEN module_state
             ELSE IF Len(log_args) # 1 THEN module_state
             ELSE IF path.suffix = <<>>
                     /\ \E i \in 1..Len(module_state.log_names) :
                            path.name = module_state.log_names[i]
                  THEN [module_state EXCEPT
                          !.fn_states[signature].block_states[last_block(blocks)].logged =
                              Append(@, Span(line, log_args[Len(log_args)].text))]
             ELSE module_state

\* visit_expr turning away only the calls without an argument
ml_visit_expr_last_arg(module_state, signature, blocks, expr, line) ==
    IF expr.kind # "FuncApp" THEN module_state
    ELSE LET path == expr.sub[1]
             log_args == Tail(expr.sub)
             pushed == [module_state EXCEPT
                          !.fn_states[signature].block_states[blocks[Len(blocks)]].logged =
                              Append(@, Span(line, log_args[Len(log_args)].text))]
         IN  IF path.kind # "Path" THEN module_state
             ELSE IF Len(log_args) = 0 THEN module_state
             ELSE IF path.suffix = <<>>
                  THEN IF \E i \in 1..Len(module_state.log_names) :
                              path.name = module_state.log_names[i]
                       THEN pushed
                       ELSE module_state
             ELSE IF Len(path.suffix) = 2
                  THEN IF /\ path.name = "std"
                          /\ path.suffix[1] = "logging"
                          /\ path.suffix[2] = "log"
                       THEN pushed
                       ELSE module_state
             ELSE module_state

\* visit_expr, after the module, function and block states are found
ml_visit_expr(module_state, signature, blocks, expr, line) ==
    IF expr.kind # "FuncApp" THEN module_state
    ELSE LET path == expr.sub[1]
             log_args == Tail(expr.sub)
             pushed == [module_state EXCEPT
                          !.fn_states[signature].block_states[last_block(blocks)].logged =
                              Append(@, Span(line, log_args[Len(log_args)].text))]
         IN  IF path.kind # "Path" THEN module_state
             ELSE IF Len(log_args) # 1 THEN module_state
             ELSE IF path.suffix = <<>>
                  THEN IF \E i \in 1..Len(module_state.log_names) :
                              path.name = module_state.log_names[i]
                       THEN pushed
                       ELSE module_state
             ELSE IF Len(path.suffix) = 2
                  THEN IF /\ path.name = "std"
                          /\ path.suffix[1] = "logging"
                          /\ path.suffix[2] = "log"
                       THEN pushed
                       ELSE module_state
             ELSE module_state

\* block_state.logged.iter().find(|logged| logged.as_str() == var_span.as_str())
IsLoggedNever(block_state, var_span) == FALSE
\* a search that takes only the logging calls recorded after the write
IsLoggedLater(block_state, var_span) ==
    \E k \in 1..Len(block_state.logged) :
        /\ block_state.logged[k].text = var_span.text
        /\ block_state.logged[k].pos > var_span.pos
IsLogged(block_state, var_span) ==
    \E k \in 1..Len(block_state.logged) : block_state.logged[k].text = var_span.text

\* format!("The `storage.{}` value is written without being logged."); the
\* model's strings hold ' for `
MissingLogMessage(text) ==
    "The 'storage." \o text \o "' value is written without being logged."

\* a loop that starts from an emptied sink
RECURSIVE report_unlogged_overwriting(_, _, _, _)
report_unlogged_overwriting(entries, path, block_state, i) ==
    LET sink == IF i = 1 THEN <<>> ELSE entries
    IN  IF i > Len(block_state.written) THEN [report |-> sink, ok |-> TRUE]
        ELSE LET storage_span == block_state.written[i][1]
                 var_span == block_state.written[i][2]
                 line == span_to_line(path, storage_span)
             IN  IF \E j \in 1..Len(block_state.logged) : block_state.logged[j].text = var_span.text
                 THEN report_unlogged_overwriting(sink, path, block_state, i + 1)
                 ELSE IF ~line.ok THEN [report |-> sink, ok |-> FALSE]
                 ELSE report_unlogged_overwriting(
                        add_entry(sink, path, line.line, "", MissingLogMessage(storage_span.text)),
                        path, block_state, i + 1)

\* the loop of leave_block from written entry i on: the sink and whether every
\* span_to_line succeeded.  The call passes add_entry no severity.
RECURSIVE report_unlogged(_, _, _, _)
report_unlogged(entries, path, block_state, i) ==
    IF i > Len(block_state.written) THEN [report |-> entries, ok |-> TRUE]
    ELSE LET storage_span == block_state.written[i][1]
             var_span == block_state.written[i][2]
             line == span_to_line(path, storage_span)
         IN  IF IsLogged(block_state, var_span)
             THEN report_unlogged(entries, path, block_state, i + 1)
             ELSE IF ~line.ok THEN [report |-> entries, ok |-> FALSE]
             ELSE report_unlogged(
                    add_entry(entries, path, line.line, "", MissingLogMessage(storage_span.text)),
                    path, block_state, i + 1)

(***************************************************************************)
(* missing_logs.rs: impl AstVisitor for MissingLogsVisitor                 *)
(***************************************************************************)
\* The walker hands one module at a time to the hooks, m1 before m2, each
\* module once: its imports and functions, a function's blocks depth first in
\* source order.  It may also call a hook whose creating hook
\* (visit_module, visit_fn, visit_block) it skipped.
MlActive(path) ==
    /\ ~panicked
    /\ ml_phase[path] # "done"
    /\ path = "m2" => ml_phase["m1"] = "done"

\* the block is the next one to open in the walk of function ml_fn
MlOpensNext(path, block) ==
    /\ IF ml_blocks = <<>>
       THEN BlockParent(block) = "none"
       ELSE BlockParent(block) = ml_blocks[Len(ml_blocks)]
    /\ block = "f.else" => "f.then" \in ml_walked[path]

\* context.blocks while the nodes of `block` are walked
MlContextBlocks(block) ==
    LET open == IF ml_blocks # <<>> /\ ml_blocks[Len(ml_blocks)] = block
                THEN ml_blocks
                ELSE Append(ml_blocks, block)
    IN  [i \in 1..Len(open) |-> block_span(open[i])]

\* the nodes of `block` are being walked: it is the innermost open block, or
\* the walker entered it without calling visit_block
MlWalksNodesOf(path, block) ==
    /\ BlockFn(block) \in MlFns(path)
    /\ ml_fn = BlockFn(block)
    /\ \/ ml_blocks # <<>> /\ ml_blocks[Len(ml_blocks)] = block
       \/ block \notin ml_walked[path] /\ MlOpensNext(path, block)

\* the source line of the next node of the block
NextLine(path, block) ==
    BlockBase(block) + 1
        + Len(MlBlockState(path, block).written) + Len(MlBlockState(path, block).logged)

MlRecorded(module_state) ==
    UNION {UNION {{<<f, b, kind, i>> :
                        i \in 1..Len(module_state.fn_states[f].block_states[b][kind])} :
                  b \in DOMAIN module_state.fn_states[f].block_states} :
           f \in DOMAIN module_state.fn_states, kind \in {"written", "logged"}}

\* the bounds hold once module `path` has the state `module_state`; a hook
\* that records nothing stays within them
MlWithinBounds(path, module_state) ==
    IF module_state = MlState(path)
    THEN TRUE
    ELSE LET recorded ==
                UNION {{<<p, r>> : r \in MlRecorded(IF p = path THEN module_state ELSE MlState(p))} :
                       p \in Paths}
         IN  /\ Cardinality({pr \in recorded : pr[2][3] = "written"}) <= MaxWrites
             /\ Cardinality({pr \in recorded : pr[2][3] = "logged"}) <= MaxLogs

\* a failed unwrap(): the hook aborts the analysis
MlPanic ==
    /\ panicked' = TRUE
    /\ UNCHANGED <<ml_vars, ui_vars, sc_vars, ty_vars, report>>

\* visit_module
MlVisitModule(path) ==
    /\ MlActive(path)
    /\ ml_fn = "none"
    /\ ml_module_states' = visit_module(ml_module_states, path, MlModuleStateDefault)
    /\ ml_phase' = [ml_phase EXCEPT ![path] = "in"]
    /\ UNCHANGED <<ml_fn, ml_blocks, ml_walked, ml_outcome, report, panicked, ui_vars, sc_vars, ty_vars>>

\* AstVisitor::leave_module, which MissingLogsVisitor does not override
MlLeaveModule(path) ==
    /\ MlActive(path)
    /\ ml_phase[path] = "in"
    /\ ml_fn = "none"
    /\ ml_phase' = [ml_phase EXCEPT ![path] = "done"]
    /\ UNCHANGED <<ml_module_states, ml_fn, ml_blocks, ml_walked, ml_outcome,
                   report, panicked, ui_vars, sc_vars, ty_vars>>

\* visit_use
MlVisitUse(path, item) ==
    /\ MlActive(path)
    /\ ml_fn = "none"
    /\ item \notin ml_walked[path]
    /\ IF path \in DOMAIN ml_module_states
       THEN /\ ml_module_states' =
                    [ml_module_states EXCEPT ![path] = ml_visit_use(@, MlUseTreeOf(item))]
            /\ ml_walked' = [ml_walked EXCEPT ![path] =
                                IF item \in MlLoggingUses THEN @ \cup {item} ELSE @]
            /\ UNCHANGED <<ml_phase, ml_fn, ml_blocks, ml_outcome, report, panicked, ui_vars, sc_vars, ty_vars>>
       ELSE MlPanic

\* visit_fn
MlVisitFn(path, fn) ==
    /\ MlActive(path)
    /\ ml_fn = "none"
    /\ fn \notin ml_walked[path]
    /\ IF path \in DOMAIN ml_module_states
       THEN /\ ml_module_states' =
                    [ml_module_states EXCEPT ![path] = ml_visit_fn(@, fn_signature(fn))]
            /\ ml_fn' = fn
            /\ ml_walked' = [ml_walked EXCEPT ![path] = @ \cup {fn}]
            /\ UNCHANGED <<ml_phase, ml_blocks, ml_outcome, report, panicked, ui_vars, sc_vars, ty_vars>>
       ELSE MlPanic

\* visit_block
MlVisitBlock(path, block) ==
    /\ MlActive(path)
    /\ BlockFn(block) \in MlFns(path)
    /\ block \notin ml_walked[path]
    /\ \/ ml_fn = BlockFn(block) /\ MlOpensNext(path, block)
       \/ /\ ml_fn = "none"         \* the walker skipped visit_fn
          /\ BlockFn(block) \notin ml_walked[path]
          /\ BlockParent(block) = "none"
    /\ IF HasFnState(path, fn_signature(BlockFn(block)))
       THEN /\ ml_module_states' =
                    [ml_module_states EXCEPT ![path] =
                        ml_visit_block(@, fn_signature(BlockFn(block)), block_span(block))]
            /\ ml_blocks' = Append(ml_blocks, block)
            /\ ml_walked' = [ml_walked EXCEPT ![path] = @ \cup {block}]
            /\ UNCHANGED <<ml_phase, ml_fn, ml_outcome, report, panicked, ui_vars, sc_vars, ty_vars>>
       ELSE MlPanic

\* leave_block
MlLeaveBlock(path, block) ==
    /\ MlActive(path)
    /\ ml_blocks # <<>>
    /\ ml_blocks[Len(ml_blocks)] = block
    /\ BlockFn(block) \in MlFns(path)
    /\ IF HasBlockState(path, fn_signature(BlockFn(block)), block_span(block))
       THEN LET done == report_unlogged(report, path, MlBlockState(path, block), 1)
                rest == SubSeq(ml_blocks, 1, Len(ml_blocks) - 1)
            IN  /\ report' = done.report
                /\ ml_outcome' = [ml_outcome EXCEPT ![block] = IF done.ok THEN "Ok" ELSE "Err"]
                /\ ml_blocks' = IF done.ok THEN rest ELSE <<>>
                /\ ml_fn' = IF done.ok /\ rest # <<>> THEN ml_fn ELSE "none"
                /\ ml_phase' = IF done.ok THEN ml_phase ELSE [ml_phase EXCEPT ![path] = "done"]
                /\ UNCHANGED <<ml_module_states, ml_walked, panicked, ui_vars, sc_vars, ty_vars>>
       ELSE MlPanic

\* visit_statement
MlVisitStatement(path, block, statement) ==
    /\ MlActive(path)
    /\ MlWalksNodesOf(path, block)
    /\ IF HasBlockState(path, fn_signature(BlockFn(block)), last_block(MlContextBlocks(block)))
       THEN LET next == ml_visit_statement(MlState(path), fn_signature(BlockFn(block)),
                            MlContextBlocks(block), statement, NextLine(path, block))
            IN  /\ MlWithinBounds(path, next)
                /\ ml_module_states' = [ml_module_states EXCEPT ![path] = next]
                /\ UNCHANGED <<ml_phase, ml_fn, ml_blocks, ml_walked, ml_outcome,
                               report, panicked, ui_vars, sc_vars, ty_vars>>
       ELSE MlPanic

\* the name under which an import item of MlLoggingUses binds the logging function
MlLocalName(item) ==
    LET leaf == MlUseTreeOf(item).sub[1].sub[1]
    IN  IF leaf.kind = "Rename" THEN leaf.alias.text ELSE leaf.name.text

\* walker history: the expression is a call n(v) and an import item of the
\* module that binds the logging function to n has not been visited yet
MlEarlyCall(path, block, expr) ==
    IF /\ expr.kind = "FuncApp"
       /\ Len(expr.sub) = 2
       /\ expr.sub[1].kind = "Path"
       /\ expr.sub[1].suffix = <<>>
       /\ \E item \in (MlUseItems(path) \cap MlLoggingUses) \ ml_walked[path] :
                MlLocalName(item) = expr.sub[1].name
    THEN {"early call"}
    ELSE {}

\* the call names the logging function: a recognized local name, or
\* `std::logging::log`
MlNamesLog(path, expr) ==
    /\ expr.kind = "FuncApp"
    /\ expr.sub[1].kind = "Path"
    /\ \/ /\ expr.sub[1].suffix = <<>>
          /\ \E i \in 1..Len(MlState(path).log_names) :
                expr.sub[1].name = MlState(path).log_names[i]
       \/ /\ expr.sub[1].name = "std"
          /\ expr.sub[1].suffix = <<"logging", "log">>

\* walker history: the expression is a call of the logging function with no
\* argument or several, the value of a write recorded in the block among
\* them, the block is the body of a function, no block was opened inside it
\* and none has a logging call recorded
MlOtherArityCall(path, block, expr) ==
    IF /\ MlNamesLog(path, expr)
       /\ Len(expr.sub) # 2
       /\ BlockParent(block) = "none"
       /\ ml_walked[path] \cap MlAllBlocks \subseteq {block}
       /\ MlBlockState(path, block).logged = <<>>
       /\ \E i \in 1..Len(MlBlockState(path, block).written) :
            \E k \in 2..Len(expr.sub) :
                expr.sub[k].text = MlBlockState(path, block).written[i][2].text
    THEN {"other arity call"}
    ELSE {}

\* visit_expr
MlVisitExpr(path, block, expr) ==
    /\ MlActive(path)
    /\ MlWalksNodesOf(path, block)
    /\ IF HasBlockState(path, fn_signature(BlockFn(block)), last_block(MlContextBlocks(block)))
       THEN LET next == ml_visit_expr(MlState(path), fn_signature(BlockFn(block)),
                            MlContextBlocks(block), expr, NextLine(path, block))
            IN  /\ MlWithinBounds(path, next)
                /\ ml_module_states' = [ml_module_states EXCEPT ![path] = next]
                /\ ml_walked' = [ml_walked EXCEPT ![path] =
                        @ \cup MlEarlyCall(path, block, expr) \cup MlOtherArityCall(path, block, expr)]
                /\ UNCHANGED <<ml_phase, ml_fn, ml_blocks, ml_outcome,
                               report, panicked, ui_vars, sc_vars, ty_vars>>
       ELSE MlPanic

\* MissingLogsVisitor::default(), no module walked
InitML ==
    /\ ml_module_states = <<>>
    /\ ml_phase = [path \in Paths |-> "new"]
    /\ ml_fn = "none"
    /\ ml_blocks = <<>>
    /\ ml_walked = [path \in Paths |-> {}]
    /\ ml_outcome = [block \in MlAllBlocks |-> "none"]

NextML ==
    \E path \in Paths :
        \/ MlVisitModule(path)
        \/ MlLeaveModule(path)
        \/ \E item \in MlUseItems(path) : MlVisitUse(path, item)
        \/ \E fn \in MlFns(path) : MlVisitFn(path, fn)
        \/ \E block \in MlAllBlocks : MlVisitBlock(path, block)
        \/ \E block \in MlAllBlocks : MlLeaveBlock(path, block)
        \/ \E block \in MlAllBlocks, statement \in MlStatements :
                MlVisitStatement(path, block, statement)
        \/ \E block \in MlAllBlocks, expr \in MlExprs : MlVisitExpr(path, block, expr)

(***************************************************************************)
(* scope.rs: AstVariable, AstScope and AstScope::get_variable.             *)
(***************************************************************************)
AstVariableKinds == {"Constant", "Storage", "Configurable", "Parameter", "Local"}
VariableNames == {"a", "b"}

AstVariable(kind, name, ty) == [kind |-> kind, name |-> name, ty |-> ty]

\* AstScope with parent None (0) or Some(parent); uses and functions play no
\* part in get_variable
AstScope(parent) == [parent |-> parent, variables |-> <<>>]

\* self.variables.iter().rev()
iter_forward(variables) == variables
iter_rev(variables) ==
    [i \in 1..Len(variables) |-> variables[Len(variables) + 1 - i]]

\* (variable.borrow().kind == AstVariableKind::Storage) != is_storage
other_partition_never(kind, is_storage) == FALSE
other_partition(kind, is_storage) == (kind = "Storage") # is_storage

\* the for loop of get_variable from the i-th variable of the iteration on:
\* the first cell of the requested partition with the name, 0 if there is none
RECURSIVE find_variable(_, _, _, _)
find_variable(variables, i, name, is_storage) ==
    IF i > Len(variables) THEN 0
    ELSE IF other_partition(sc_heap[variables[i]].kind, is_storage)
         THEN find_variable(variables, i + 1, name, is_storage)
    ELSE IF sc_heap[variables[i]].name = name THEN variables[i]
    ELSE find_variable(variables, i + 1, name, is_storage)

RECURSIVE get_variable(_, _, _)
\* if let Some(parent) = self.parent.as_ref() { parent.borrow().get_variable(..) }
parent_get_variable_none(scope, name, is_storage) == 0
parent_get_variable(scope, name, is_storage) ==
    IF sc_scopes[scope].parent # 0
    THEN get_variable(sc_scopes[scope].parent, name, is_storage)
    ELSE 0

\* AstScope::get_variable(&self, name, is_storage), 0 for None
get_variable(scope, name, is_storage) ==
    LET found == find_variable(iter_rev(sc_scopes[scope].variables), 1, name, is_storage)
    IN  IF found # 0 THEN found ELSE parent_get_variable(scope, name, is_storage)

\* Some(variable.clone()) on an Rc: a second handle on the same cell
rc_clone_deep(heap, cell) ==
    IF cell = 0 THEN [heap |-> heap, handle |-> 0]
    ELSE [heap |-> Append(heap, heap[cell]), handle |-> Len(heap) + 1]
rc_clone(heap, cell) == [heap |-> heap, handle |-> cell]

NoQuery == [scope |-> 0, name |-> "", is_storage |-> FALSE]

\* a client enters a nested construct: a new scope whose parent is the
\* current (most recently created) scope
ScPushScope(parent) ==
    /\ sc_query = NoQuery
    /\ parent = Len(sc_scopes)
    /\ Len(sc_scopes) < MaxScopes
    /\ sc_scopes' = Append(sc_scopes, AstScope(parent))
    /\ UNCHANGED <<sc_heap, sc_query, sc_found, sc_mutated, ui_vars, ml_vars, ty_vars, report, panicked>>

\* a client declares a variable: scope.variables.push(Rc::new(RefCell::new(..)))
ScDeclare(scope, kind, name) ==
    /\ sc_query = NoQuery
    /\ Len(sc_heap) < MaxVars
    /\ sc_heap' = Append(sc_heap, AstVariable(kind, name, "u64"))
    /\ sc_scopes' = [sc_scopes EXCEPT ![scope].variables = Append(@, Len(sc_heap) + 1)]
    /\ UNCHANGED <<sc_query, sc_found, sc_mutated, ui_vars, ml_vars, ty_vars, report, panicked>>

\* a client calls get_variable(name, is_storage) on the current scope and
\* keeps the result
ScGetVariable(scope, name, is_storage) ==
    /\ sc_query = NoQuery
    /\ scope = Len(sc_scopes)
    /\ LET cloned == rc_clone(sc_heap, get_variable(scope, name, is_storage))
       IN  /\ sc_heap' = cloned.heap
           /\ sc_found' = cloned.handle
    /\ sc_query' = [scope |-> scope, name |-> name, is_storage |-> is_storage]
    /\ UNCHANGED <<sc_scopes, sc_mutated, ui_vars, ml_vars, ty_vars, report, panicked>>

\* the holder of the handle writes through it: variable.borrow_mut().ty = ..
ScMutate ==
    /\ sc_found # 0
    /\ ~sc_mutated
    /\ sc_heap' = [sc_heap EXCEPT ![sc_found].ty = "bool"]
    /\ sc_mutated' = TRUE
    /\ UNCHANGED <<sc_scopes, sc_query, sc_found, ui_vars, ml_vars, ty_vars, report, panicked>>

\* AstScope::default(): one scope without parent or variables
InitSC ==
    /\ sc_scopes = <<AstScope(0)>>
    /\ sc_heap = <<>>
    /\ sc_query = NoQuery
    /\ sc_found = 0
    /\ sc_mutated = FALSE

NextSC ==
    \/ \E parent \in 1..Len(sc_scopes) : ScPushScope(parent)
    \/ \E scope \in 1..Len(sc_scopes), kind \in AstVariableKinds, name \in VariableNames :
            ScDeclare(scope, kind, name)
    \/ \E scope \in 1..Len(sc_scopes), name \in VariableNames, is_storage \in BOOLEAN :
            ScGetVariable(scope, name, is_storage)
    \/ ScMutate

(***************************************************************************)
(* scope.rs: AstScope::get_full_ty and AstScope::get_expr_ty.              *)
(***************************************************************************)
\* what a call that ended in panic!, todo!() or a failed unwrap() leaves: no type
Abort == [kind |-> "abort"]

\* sway_ast::Expr as get_expr_ty reads it, one record shape for every variant:
\* `name` is the identifier of a path, the kind of a literal, the type name of a
\* struct or ABI cast or the field of a projection, `suffix` the suffix of a
\* path, `index` the field of a tuple projection, `sub` the operands
TyExpr(kind, name, suffix, index, sub) ==
    [kind |-> kind, name |-> name, suffix |-> suffix, index |-> index, sub |-> sub]
ExprPath(name, suffix) == TyExpr("Path", name, suffix, 0, <<>>)
ExprLiteral(literal) == TyExpr("Literal", literal, <<>>, 0, <<>>)
ExprTuple(elems) == TyExpr("Tuple", "", <<>>, 0, elems)
ExprArray(elems) == TyExpr("Array", "", <<>>, 0, elems)
ExprArrayRepeat(value, length) == TyExpr("ArrayRepeat", "", <<>>, 0, <<value, length>>)
ExprIndex(target, arg) == TyExpr("Index", "", <<>>, 0, <<target, arg>>)
ExprFieldProjection(target, name) == TyExpr("FieldProjection", name, <<>>, 0, <<target>>)
ExprTupleFieldProjection(target, field) == TyExpr("TupleFieldProjection", "", <<>>, field, <<target>>)
\* the other variants: `operands` holds the operand get_expr_ty may descend
\* into (the final expression of a block, the lhs of an operator, ..); the
\* operands of an if are its then block and, if it has one, its else block,
\* those of a match the block or expression of each of its branches
ExprOf(kind, operands) == TyExpr(kind, "", <<>>, 0, operands)
ExprNamed(kind, name) == TyExpr(kind, name, <<>>, 0, <<>>)

\* project.resolver.resolve_ty(ty): the declaration of a type, if the project
\* has one.  The project declares `struct Owner { id: u64 }`.
ResolverStructs == {"Owner"}
StructFields(name) == <<[name |-> "id", ty |-> TPlain("u64")]>>
resolve_ty(ty) ==
    IF ty.kind = "Path" /\ ty.name \in ResolverStructs
    THEN [some |-> TRUE, item |-> "Struct", name |-> ty.name]
    ELSE [some |-> FALSE, item |-> "", name |-> ""]

\* fn empty_tuple_ty()
empty_tuple_ty == TTuple(<<>>)

\* Ty::Tuple of element types, none of which may be missing
tuple_ty(elems) ==
    IF \E i \in 1..Len(elems) : elems[i] = Abort THEN Abort ELSE TTuple(elems)

\* a qualification that hands every type back as it was written
get_full_ty_as_written(ty) == ty
\* AstScope::get_full_ty
RECURSIVE get_full_ty(_)
get_full_ty(ty) ==
    IF resolve_ty(ty).some THEN ty
    ELSE CASE ty.kind = "Path" -> Abort
           [] ty.kind = "Tuple" ->
                tuple_ty([i \in 1..Len(ty.elems) |-> get_full_ty(ty.elems[i])])
           [] ty.kind = "Array" ->
                IF get_full_ty(ty.elems[1]) = Abort THEN Abort
                ELSE TArray(get_full_ty(ty.elems[1]), ty.length[1])
           [] ty.kind \in {"Ptr", "Slice", "Ref"} ->
                IF get_full_ty(ty.elems[1]) = Abort THEN Abort
                ELSE TBox(ty.kind, get_full_ty(ty.elems[1]))
           [] OTHER -> ty

\* Ty::Path `core::storage::StorageKey<ty>`: root_opt None, prefix `core`, the
\* suffix segments `storage` and `StorageKey` with the one generic argument ty
storage_key_ty_raw(ty) == ty
storage_key_ty(ty) ==
    IF ty = Abort THEN Abort
    ELSE [kind |-> "Path", name |-> "core", generics |-> <<>>, root |-> <<>>,
          as_trait |-> <<>>, elems |-> <<>>, length |-> <<>>,
          suffix |-> <<[name |-> "storage", generics |-> <<>>],
                       [name |-> "StorageKey", generics |-> <<ty>>]>>]

\* self.get_variable(name.as_str(), true).unwrap(), then get_full_ty of its ty
storage_field_ty(scope, name) ==
    IF get_variable(scope, name, TRUE) = 0
    THEN Abort
    ELSE storage_key_ty(get_full_ty(sc_heap[get_variable(scope, name, TRUE)].ty))

\* the struct arm of Expr::FieldProjection
struct_field_ty(target_type, name) ==
    IF target_type = Abort THEN Abort
    ELSE IF ~resolve_ty(target_type).some \/ resolve_ty(target_type).item # "Struct" THEN Abort
    ELSE LET fields == StructFields(resolve_ty(target_type).name)
         IN  IF \E i \in 1..Len(fields) : fields[i].name = name
             THEN fields[CHOOSE i \in 1..Len(fields) :
                            /\ fields[i].name = name
                            /\ \A j \in 1..(i - 1) : fields[j].name # name].ty
             ELSE Abort

\* Expr::Index: the element type of an array type
index_ty(target_type) ==
    IF target_type.kind = "Array" THEN target_type.elems[1] ELSE Abort

\* a projection that counts the fields of the tail from 1
tuple_field_ty_past_head(target_type, index) ==
    IF target_type.kind # "Tuple" THEN Abort
    ELSE IF target_type.elems = <<>> THEN Abort
    ELSE IF index = 0 THEN target_type.elems[1]
    ELSE IF index + 2 <= Len(target_type.elems) THEN target_type.elems[index + 2]
    ELSE Abort
\* Expr::TupleFieldProjection: head for index 0, remaining[index - 1] otherwise,
\* where remaining holds the types of the tail
tuple_field_ty(target_type, index) ==
    IF target_type.kind # "Tuple" THEN Abort
    ELSE IF target_type.elems = <<>> THEN Abort
    ELSE IF index = 0 THEN target_type.elems[1]
    ELSE LET remaining == Tail(target_type.elems)
         IN  IF index - 1 < Len(remaining) THEN remaining[index] ELSE Abort

\* AstScope::get_expr_ty, called on scope `scope`
RECURSIVE get_expr_ty(_, _)
\* a block typed as unit whatever it ends with
final_expr_ty_unit(scope, final_expr_opt) == empty_tuple_ty
\* match block.inner.final_expr_opt.as_ref() {
\*     Some(expr) => self.get_expr_ty(expr, project), None => empty_tuple_ty() }
final_expr_ty(scope, final_expr_opt) ==
    IF final_expr_opt = <<>> THEN empty_tuple_ty ELSE get_expr_ty(scope, final_expr_opt[1])

get_expr_ty(scope, expr) ==
    CASE expr.kind \in {"Error", "FuncApp"} -> Abort
      [] expr.kind = "Path" ->
            IF expr.suffix = <<>> /\ get_variable(scope, expr.name, FALSE) # 0
            THEN sc_heap[get_variable(scope, expr.name, FALSE)].ty
            ELSE Abort
      [] expr.kind = "Literal" ->
            CASE expr.name = "String" -> TLeaf("StringSlice")
              [] expr.name = "Char" -> Abort
              [] expr.name = "Int" -> TPlain("u64")
              [] OTHER -> TPlain("bool")
      [] expr.kind \in {"AbiCast", "Struct"} -> TPlain(expr.name)
      [] expr.kind = "Tuple" ->
            IF expr.sub = <<>> THEN empty_tuple_ty
            ELSE tuple_ty([i \in 1..Len(expr.sub) |-> get_expr_ty(scope, expr.sub[i])])
      [] expr.kind \in {"Parens", "Ref", "Deref", "Not", "ArrayRepeat",
                        "Mul", "Div", "Pow", "Modulo", "Add", "Sub", "Shl", "Shr",
                        "BitAnd", "BitXor", "BitOr"} ->
            get_expr_ty(scope, expr.sub[1])
      [] expr.kind = "Block" -> final_expr_ty(scope, expr.sub)
      [] expr.kind = "If" -> final_expr_ty(scope, expr.sub[1].sub)
      [] expr.kind = "Match" ->
            IF expr.sub = <<>> THEN empty_tuple_ty
            ELSE IF expr.sub[1].kind = "Block" THEN final_expr_ty(scope, expr.sub[1].sub)
            ELSE get_expr_ty(scope, expr.sub[1])
      [] expr.kind = "Array" ->
            IF expr.sub = <<>> THEN empty_tuple_ty ELSE get_expr_ty(scope, expr.sub[1])
      [] expr.kind \in {"Asm", "Return", "While", "For", "Reassignment", "Break", "Continue"} ->
            empty_tuple_ty
      [] expr.kind = "Index" -> index_ty(get_expr_ty(scope, expr.sub[1]))
      [] expr.kind = "MethodCall" -> Abort
      [] expr.kind = "FieldProjection" ->
            IF expr.sub[1].kind = "Path" /\ expr.sub[1].name = "storage" /\ expr.sub[1].suffix = <<>>
            THEN storage_field_ty(scope, expr.name)
            ELSE struct_field_ty(get_expr_ty(scope, expr.sub[1]), expr.name)
      [] expr.kind = "TupleFieldProjection" ->
            tuple_field_ty(get_expr_ty(scope, expr.sub[1]), expr.index)
      [] expr.kind \in {"Equal", "NotEqual", "LessThan", "GreaterThan", "LessThanEq",
                        "GreaterThanEq", "LogicalAnd", "LogicalOr"} ->
            TPlain("bool")

\* The declared types of the variables in scope:
\*   Owner   Missing (no declaration)   [Owner; n]   (Owner, str)
TyDeclaredTys ==
    {TPlain("Owner"), TPlain("Missing"), TArray(TPlain("Owner"), NameExpr("n")),
     TTuple(<<TPlain("Owner"), TLeaf("StringSlice")>>)}
TyVariableKinds == {"Storage", "Local"}

\* The expressions handed to get_expr_ty:
\*   storage.a  storage.b  a.id  a  a::b  1  true  "s"  'c'
\*   [1, 2][0]  [a][0]  [][0]  [1; 3][0]  a[0]
\*   ().0  (1,).0  (1,).1  (1, true).0  (1, true).1  (1, true).2
\*   (1, true, "s").2  (1, 'c').0  (a, "s").0  (a, "s").1  1.0  a.0
\*   1 + true  1 == 1  {}  { a }  f()  { 'c' }
\*   if .. { 1 } else { true }   if .. { } else { 1 }   if .. { a }
\*   match .. { }   match .. { _ => { }, _ => 1 }   match .. { _ => { "s" }, _ => 1 }
\*   match .. { _ => true, _ => 1 }   match .. { _ => a }
ExprInt == ExprLiteral("Int")
ExprBool == ExprLiteral("Bool")
ExprStr == ExprLiteral("String")
ExprChar == ExprLiteral("Char")
ExprA == ExprPath("a", <<>>)
TyTuples ==
    {ExprTuple(<<>>), ExprTuple(<<ExprInt>>), ExprTuple(<<ExprInt, ExprBool>>),
     ExprTuple(<<ExprInt, ExprBool, ExprStr>>), ExprTuple(<<ExprInt, ExprChar>>),
     ExprTuple(<<ExprA, ExprStr>>)}
TyArrays ==
    {ExprArray(<<ExprInt, ExprInt>>), ExprArray(<<ExprA>>), ExprArray(<<>>)}
TyExprs ==
    {ExprFieldProjection(ExprPath("storage", <<>>), "a"),
     ExprFieldProjection(ExprPath("storage", <<>>), "b"),
     ExprFieldProjection(ExprA, "id"),
     ExprA, ExprPath("a", <<"b">>), ExprInt, ExprBool, ExprStr, ExprChar,
     ExprIndex(ExprArrayRepeat(ExprInt, ExprInt), ExprInt),
     ExprIndex(ExprA, ExprInt),
     ExprTupleFieldProjection(ExprInt, 0),
     ExprTupleFieldProjection(ExprA, 0),
     ExprOf("Add", <<ExprInt, ExprBool>>), ExprOf("Equal", <<ExprInt, ExprInt>>),
     ExprOf("Block", <<>>), ExprOf("Block", <<ExprA>>), ExprOf("FuncApp", <<ExprA>>),
     ExprOf("Block", <<ExprChar>>),
     ExprOf("If", <<ExprOf("Block", <<ExprInt>>), ExprOf("Block", <<ExprBool>>)>>),
     ExprOf("If", <<ExprOf("Block", <<>>), ExprOf("Block", <<ExprInt>>)>>),
     ExprOf("If", <<ExprOf("Block", <<ExprA>>)>>),
     ExprOf("Match", <<>>),
     ExprOf("Match", <<ExprOf("Block", <<>>), ExprInt>>),
     ExprOf("Match", <<ExprOf("Block", <<ExprStr>>), ExprInt>>),
     ExprOf("Match", <<ExprBool, ExprInt>>),
     ExprOf("Match", <<ExprA>>)}
        \cup {ExprIndex(array, ExprInt) : array \in TyArrays}
        \cup {ExprTupleFieldProjection(tuple, field) : tuple \in TyTuples, field \in 0..2}

NoExpr == ExprOf("none", <<>>)
NoTy == [kind |-> "none"]

\* a client enters a nested construct: a new scope whose parent is the current one
TyPushScope ==
    /\ ty_expr = NoExpr
    /\ Len(sc_scopes) < MaxScopes
    /\ sc_scopes' = Append(sc_scopes, AstScope(Len(sc_scopes)))
    /\ UNCHANGED <<sc_heap, sc_query, sc_found, sc_mutated, ty_vars, ui_vars, ml_vars,
                   report, panicked>>

\* a client declares a variable of the current scope with its declared type
TyDeclare(kind, name, ty) ==
    /\ ty_expr = NoExpr
    /\ Len(sc_heap) < MaxVars
    /\ sc_heap' = Append(sc_heap, AstVariable(kind, name, ty))
    /\ sc_scopes' = [sc_scopes EXCEPT ![Len(sc_scopes)].variables = Append(@, Len(sc_heap) + 1)]
    /\ UNCHANGED <<sc_query, sc_found, sc_mutated, ty_vars, ui_vars, ml_vars, report, panicked>>

\* a client calls get_expr_ty(expr, project) on the current scope
TyGetExprTy(expr) ==
    /\ ty_expr = NoExpr
    /\ ty_expr' = expr
    /\ ty_result' = get_expr_ty(Len(sc_scopes), expr)
    /\ panicked' = (get_expr_ty(Len(sc_scopes), expr) = Abort)
    /\ UNCHANGED <<sc_vars, ui_vars, ml_vars, report>>

\* The types handed to get_full_ty:
\*   Owner   Missing   ()   (Owner, str)   (Owner, Missing)   ((Missing,), str)
\*   [Owner; n]   [Missing; n]   __ptr[Missing]   __slice[Owner]
\*   &(str, [Missing; n])   &str   str   str[n]   _   !
TyFullTys ==
    TyDeclaredTys \cup
    {TTuple(<<>>), TTuple(<<TPlain("Owner"), TPlain("Missing")>>),
     TTuple(<<TTuple(<<TPlain("Missing")>>), TLeaf("StringSlice")>>),
     TArray(TPlain("Missing"), NameExpr("n")),
     TBox("Ptr", TPlain("Missing")), TBox("Slice", TPlain("Owner")),
     TBox("Ref", TTuple(<<TLeaf("StringSlice"), TArray(TPlain("Missing"), NameExpr("n"))>>)),
     TBox("Ref", TLeaf("StringSlice")),
     TLeaf("StringSlice"), TLeaf("StringArray"), TLeaf("Infer"), TLeaf("Never")}

\* the call `get_full_ty(project, ty)` as the subject of a query
FullTyCall(ty) == TyExpr("get_full_ty", "", <<>>, 0, <<ty>>)

\* a client calls get_full_ty(project, ty) on the current scope
TyGetFullTy(ty) ==
    /\ ty_expr = NoExpr
    /\ ty_expr' = FullTyCall(ty)
    /\ ty_result' = get_full_ty(ty)
    /\ panicked' = (get_full_ty(ty) = Abort)
    /\ UNCHANGED <<sc_vars, ui_vars, ml_vars, report>>

\* no call of get_expr_ty made
InitTY ==
    /\ ty_expr = NoExpr
    /\ ty_result = NoTy

NextTY ==
    \/ TyPushScope
    \/ \E kind \in TyVariableKinds, ty \in TyDeclaredTys : TyDeclare(kind, "a", ty)
    \/ \E expr \in TyExprs : TyGetExprTy(expr)
    \/ \E ty \in TyFullTys : TyGetFullTy(ty)

(***************************************************************************)
(* One pass of the dispatch engine with both detectors active: every       *)
(* detector receives the hooks of the module being walked, in any          *)
(* interleaving; a module is entered once both detectors are through with  *)
(* the module before it.  The pass walks the imports `a::b::C` and `x::B`  *)
(* (the latter at a span without a line) of m1 and the function f of m2,   *)
(* whose body writes to storage and holds the expressions of BothExprs.    *)
(***************************************************************************)
BothAt(path) == path = "m2" => ui_phase["m1"] = "done" /\ ml_phase["m1"] = "done"

BothUseItems == {"UseC", "UseB"}
BothExprs == {MlCall("emit", <<>>, <<NameExpr("x")>>), NameExpr("C")}
BothStatements == MlStatements \ {OtherStatement}

NextBoth ==
    \E path \in Paths :
        /\ BothAt(path)
        /\ \/ UiVisitModule(path)
           \/ UiLeaveModule(path)
           \/ \E item \in UseItems(path) \cap BothUseItems : UiVisitUse(path, item)
           \/ \E expr \in BothExprs : UiVisitExpr(path, expr)
           \/ MlVisitModule(path)
           \/ MlLeaveModule(path)
           \/ \E item \in MlUseItems(path) \cap MlLoggingUses : MlVisitUse(path, item)
           \/ \E fn \in MlFns(path) : MlVisitFn(path, fn)
           \/ MlVisitBlock(path, "f.body")
           \/ MlLeaveBlock(path, "f.body")
           \/ \E statement \in BothStatements : MlVisitStatement(path, "f.body", statement)
           \/ \E expr \in BothExprs : MlVisitExpr(path, "f.body", expr)

(***************************************************************************)
(* One pass of the dispatch engine with one of the two detectors active:   *)
(* every hook of the pass goes to the detector that received the first.    *)
(***************************************************************************)
NextEither ==
    \/ InitML /\ NextUI
    \/ InitUI /\ NextML

\* the detectors and the root scope constructed, an empty report, nothing walked
Init ==
    /\ InitUI
    /\ InitML
    /\ InitSC
    /\ InitTY
    /\ report = <<>>
    /\ panicked = FALSE

SpecBoth == Init /\ [][NextBoth]_vars
SpecEither == Init /\ [][NextEither]_vars
SpecML == Init /\ [][NextML]_vars
SpecScope == Init /\ [][NextSC]_vars
SpecTy == Init /\ [][NextTY]_vars
SpecUI == Init /\ [][NextUI]_vars

(***************************************************************************)
(* Properties of the unused-import detector.                               *)
(***************************************************************************)
UiEntries(path) == ui_module_states[path].usage_states

\* the diagnostics of the sink for the import with declaration span `span`
DiagsFor(path, span) ==
    {k \in 1..Len(report) :
        /\ report[k].path = path
        /\ report[k].line = span_to_line(path, span).line
        /\ report[k].message = UnusedImportMessage(span.text)}

\* the diagnostics of the sink for module `path`
DiagsOf(path) == {k \in 1..Len(report) : report[k].path = path}

UniqueText(path, i) ==
    \A j \in 1..Len(UiEntries(path)) :
        j # i => UiEntries(path)[j].span.text # UiEntries(path)[i].span.text

\* C1: when leave_module has returned Ok, every import that no reference
\* matched by text since it was registered has exactly one diagnostic in the
\* sink, of severity Low, naming the import, at the line of its span.
C1_UnreferencedImportReportedOnce ==
    \A path \in DOMAIN ui_module_states :
        ui_outcome[path] = "Ok" =>
            \A i \in 1..Len(UiEntries(path)) :
                SeenSince(ui_module_states[path], i) = 0 =>
                    /\ Cardinality(DiagsFor(path, UiEntries(path)[i].span)) = 1
                    /\ \A k \in DiagsFor(path, UiEntries(path)[i].span) :
                            report[k].severity = "Low"

C1_Witness ==
    \E path \in DOMAIN ui_module_states :
        /\ ui_outcome[path] = "Ok"
        /\ \E i \in 1..Len(UiEntries(path)) :
            /\ SeenSince(ui_module_states[path], i) = 0
            /\ Cardinality(DiagsFor(path, UiEntries(path)[i].span)) = 1
        /\ \E j \in 1..Len(UiEntries(path)) : UiEntries(path)[j].count > 0

\* C2 as stated: once leave_module has run, an import with at least one
\* text-matching reference since its registration has no diagnostic.
C2_ReferencedImportNotReported ==
    \A path \in DOMAIN ui_module_states :
        ui_phase[path] = "done" =>
            \A i \in 1..Len(UiEntries(path)) :
                SeenSince(ui_module_states[path], i) >= 1 =>
                    DiagsFor(path, UiEntries(path)[i].span) = {}

\* C2 as amended: once leave_module has run, an import with at least one
\* text-matching reference since its registration, and whose text no other
\* registered import of the module has, has no diagnostic.
C2_ReferencedUniqueImportNotReported ==
    \A path \in DOMAIN ui_module_states :
        ui_phase[path] = "done" =>
            \A i \in 1..Len(UiEntries(path)) :
                (SeenSince(ui_module_states[path], i) >= 1 /\ UniqueText(path, i)) =>
                    \A k \in DiagsOf(path) :
                        report[k].message # UnusedImportMessage(UiEntries(path)[i].span.text)

C2_Witness ==
    \E path \in DOMAIN ui_module_states :
        /\ ui_phase[path] = "done"
        /\ \E i \in 1..Len(UiEntries(path)) :
            /\ SeenSince(ui_module_states[path], i) >= 2
            /\ UniqueText(path, i)
            /\ DiagsFor(path, UiEntries(path)[i].span) = {}
        /\ DiagsOf(path) # {}

\* C8: the renamed import `use a::B as C;` is registered under the span of its
\* alias C and never under the span of B; its counter never exceeds the number
\* of references with text C since its registration, and equals it when no
\* other import has text C, whatever references with text B were checked.
RenameAlias == Span(3, "C")
RenameName == Span(2, "B")
C8_RenameTrackedUnderAlias ==
    \A path \in DOMAIN ui_module_states :
        "UseBasC" \in ui_visited[path] =>
            /\ \E i \in 1..Len(UiEntries(path)) : UiEntries(path)[i].span = RenameAlias
            /\ \A i \in 1..Len(UiEntries(path)) :
                /\ UiEntries(path)[i].span # RenameName
                /\ UiEntries(path)[i].span = RenameAlias =>
                    /\ UiEntries(path)[i].count <= SeenSince(ui_module_states[path], i)
                    /\ UniqueText(path, i) =>
                            UiEntries(path)[i].count = RefsSince(ui_module_states[path], i, "C")

C8_Witness ==
    \E path \in DOMAIN ui_module_states :
        /\ "UseBasC" \in ui_visited[path]
        /\ \E i \in 1..Len(UiEntries(path)) :
            /\ UiEntries(path)[i].span = RenameAlias
            /\ UniqueText(path, i)
            /\ RefsSince(ui_module_states[path], i, "B") >= 1
            /\ UiEntries(path)[i].count = 1

\* C9: every diagnostic of the sink names a leaf (plain name or alias) of an
\* import item visited in its module; a module in which no import item, or
\* only the glob and malformed import, was visited has no diagnostic.
C9_OnlyRegisteredLeavesReported ==
    /\ \A k \in 1..Len(report) :
            \E item \in ui_visited[report[k].path] :
                \E span \in LeafSpans(UseTreeOf(item)) : k \in DiagsFor(report[k].path, span)
    /\ \A path \in Paths : ui_visited[path] \subseteq {"UseGlob"} => DiagsOf(path) = {}

C9_Witness ==
    /\ ui_outcome["m1"] = "Ok" /\ ui_visited["m1"] = {}
    /\ ui_outcome["m2"] = "Ok" /\ ui_visited["m2"] = {"UseGlob"}
    /\ report = <<>>

\* C10: every leaf of every visited import item, at any depth of groups and
\* path prefixes, has its own entry; and when only `use a::{B, b::{C, *}};` was
\* registered, B was referenced, C was not and leave_module returned Ok, the
\* module has exactly one diagnostic, naming C.
GroupB == Span(4, "B")
GroupC == Span(5, "C")
C10_GroupRegistersEveryLeaf ==
    \A path \in DOMAIN ui_module_states :
        /\ \A item \in ui_visited[path] :
                \A span \in LeafSpans(UseTreeOf(item)) :
                    Cardinality({i \in 1..Len(UiEntries(path)) : UiEntries(path)[i].span = span}) = 1
        /\ ( /\ "UseGroupBC" \in ui_visited[path]
             /\ ui_outcome[path] = "Ok"
             /\ Len(UiEntries(path)) = 2
             /\ \A i \in 1..Len(UiEntries(path)) :
                    /\ UiEntries(path)[i].span = GroupB => UiEntries(path)[i].count >= 1
                    /\ UiEntries(path)[i].span = GroupC => SeenSince(ui_module_states[path], i) = 0 )
           => /\ Cardinality(DiagsOf(path)) = 1
              /\ \A k \in DiagsOf(path) :
                    /\ report[k].message = UnusedImportMessage("C")
                    /\ report[k].line = SourceLine(GroupC.pos)

C10_Witness ==
    \E path \in DOMAIN ui_module_states :
        /\ "UseGroupBC" \in ui_visited[path]
        /\ ui_outcome[path] = "Ok"
        /\ Len(UiEntries(path)) = 2
        /\ \E i \in 1..Len(UiEntries(path)) :
                UiEntries(path)[i].span = GroupB /\ UiEntries(path)[i].count >= 1
        /\ \E i \in 1..Len(UiEntries(path)) :
                UiEntries(path)[i].span = GroupC /\ SeenSince(ui_module_states[path], i) = 0
        /\ Cardinality(DiagsOf(path)) = 1

(***************************************************************************)
(* Properties of the missing-logs detector.                                *)
(***************************************************************************)
\* the module whose function holds the block
BlockPath(block) == CHOOSE path \in Paths : BlockFn(block) \in MlFns(path)

\* the diagnostics of the sink for the storage write with field span `span`
MlDiagsFor(path, span) ==
    {k \in 1..Len(report) :
        /\ report[k].path = path
        /\ report[k].line = SourceLine(span.pos)
        /\ report[k].message = MissingLogMessage(span.text)}

\* the block a span lies in, by its position in the source
SpanBlock(span) ==
    CHOOSE block \in MlAllBlocks :
        /\ BlockBase(block) < span.pos % LineTableEnd
        /\ span.pos % LineTableEnd < BlockBase(block) + 10

\* every storage write and every logged argument the module state holds,
\* whichever block state holds it
AllWritten(path) ==
    {MlState(path).fn_states[r[1]].block_states[r[2]].written[r[4]] :
        r \in {q \in MlRecorded(MlState(path)) : q[3] = "written"}}
AllLogged(path) ==
    {MlState(path).fn_states[r[1]].block_states[r[2]].logged[r[4]] :
        r \in {q \in MlRecorded(MlState(path)) : q[3] = "logged"}}

\* C3: when leave_block has returned Ok for a block, every storage write the
\* block recorded has no diagnostic in the sink if the block also recorded a
\* logged argument with the text of the written value, and exactly one
\* diagnostic, naming the storage field, if the block recorded none.
C3_WriteReportedUnlessLoggedInBlock ==
    \A block \in MlAllBlocks :
        ml_outcome[block] = "Ok" =>
            LET state == MlBlockState(BlockPath(block), block)
            IN  \A i \in 1..Len(state.written) :
                    Cardinality(MlDiagsFor(BlockPath(block), state.written[i][1])) =
                        IF \E k \in 1..Len(state.logged) :
                                state.logged[k].text = state.written[i][2].text
                        THEN 0
                        ELSE 1

C3_Witness ==
    \E block \in MlAllBlocks :
        /\ ml_outcome[block] = "Ok"
        /\ LET state == MlBlockState(BlockPath(block), block)
           IN  \E i, j \in 1..Len(state.written) :
                /\ \E k \in 1..Len(state.logged) :
                        state.logged[k].text = state.written[i][2].text
                /\ MlDiagsFor(BlockPath(block), state.written[i][1]) = {}
                /\ \A k \in 1..Len(state.logged) :
                        state.logged[k].text # state.written[j][2].text
                /\ Cardinality(MlDiagsFor(BlockPath(block), state.written[j][1])) = 1

\* the logged arguments with the text of the written value, in the block of
\* the write and in the other blocks
MatchingLogs(path, write) == {l \in AllLogged(path) : l.text = write[2].text}
LogsInBlock(path, write) ==
    {l \in MatchingLogs(path, write) : SpanBlock(l) = SpanBlock(write[1])}
LogsElsewhere(path, write) ==
    {l \in MatchingLogs(path, write) : SpanBlock(l) # SpanBlock(write[1])}

\* C4: when leave_block has returned Ok for block B, a storage write of B
\* whose value is logged with matching text only in other blocks of the
\* function has exactly one diagnostic in the sink.
C4_LogInOtherBlockDoesNotCount ==
    \A path \in Paths : \A write \in AllWritten(path) :
        /\ ml_outcome[SpanBlock(write[1])] = "Ok"
        /\ LogsInBlock(path, write) = {}
        /\ LogsElsewhere(path, write) # {}
        => Cardinality(MlDiagsFor(path, write[1])) = 1

\* a write of the function body whose value is logged in a nested block, and
\* a write of a nested block whose value is logged in its sibling
C4_Witness ==
    \E path \in Paths : \E outer, inner \in AllWritten(path) :
        /\ SpanBlock(outer[1]) = "f.body"
        /\ SpanBlock(inner[1]) = "f.then"
        /\ ml_outcome["f.body"] = "Ok"
        /\ ml_outcome["f.then"] = "Ok"
        /\ LogsInBlock(path, outer) = {} /\ LogsInBlock(path, inner) = {}
        /\ \E l \in LogsElsewhere(path, outer) : SpanBlock(l) = "f.else"
        /\ \E l \in LogsElsewhere(path, inner) : SpanBlock(l) = "f.else"
        /\ Cardinality(MlDiagsFor(path, outer[1])) = 1
        /\ Cardinality(MlDiagsFor(path, inner[1])) = 1

\* a write of a nested block whose value is logged in the enclosing block
C4_WitnessEnclosing ==
    \E path \in Paths : \E inner \in AllWritten(path) :
        /\ SpanBlock(inner[1]) = "f.then"
        /\ ml_outcome["f.then"] = "Ok"
        /\ LogsInBlock(path, inner) = {}
        /\ \E l \in LogsElsewhere(path, inner) : SpanBlock(l) = "f.body"
        /\ Cardinality(MlDiagsFor(path, inner[1])) = 1

(***************************************************************************)
(* Properties of AstScope::get_variable.                                   *)
(***************************************************************************)
\* the scopes on the chain from `scope` to the root
RECURSIVE ScChain(_)
ScChain(scope) ==
    {scope} \cup (IF sc_scopes[scope].parent = 0 THEN {} ELSE ScChain(sc_scopes[scope].parent))

\* the number of scopes between `scope` and the root
RECURSIVE ScDepth(_)
ScDepth(scope) ==
    IF sc_scopes[scope].parent = 0 THEN 0 ELSE 1 + ScDepth(sc_scopes[scope].parent)

InPartition(cell, is_storage) ==
    IF is_storage
    THEN sc_heap[cell].kind = "Storage"
    ELSE sc_heap[cell].kind \in {"Constant", "Configurable", "Parameter", "Local"}

\* the positions, in declaration order, of the bindings of `scope` with the
\* name in the partition
Declared(scope, name, is_storage) ==
    {i \in 1..Len(sc_scopes[scope].variables) :
        /\ sc_heap[sc_scopes[scope].variables[i]].name = name
        /\ InPartition(sc_scopes[scope].variables[i], is_storage)}

\* the scope that declared the cell
ScopeOf(cell) ==
    CHOOSE scope \in 1..Len(sc_scopes) :
        \E i \in 1..Len(sc_scopes[scope].variables) : sc_scopes[scope].variables[i] = cell

Queried == sc_query # NoQuery

\* C5: in every scope tree, for every scope, name and flag, the binding
\* get_variable returns is of kind Storage when is_storage is true and of kind
\* Constant, Configurable, Parameter or Local when it is false.
C5_LookupStaysInPartition ==
    \A scope \in 1..Len(sc_scopes), name \in VariableNames, is_storage \in BOOLEAN :
        get_variable(scope, name, is_storage) # 0 =>
            InPartition(get_variable(scope, name, is_storage), is_storage)

\* a call returned a binding although the scope that holds it declared, after
\* it, a binding with the same name in the other partition
C5_Witness ==
    /\ Queried
    /\ sc_found # 0
    /\ InPartition(sc_found, sc_query.is_storage)
    /\ \E j \in Declared(ScopeOf(sc_found), sc_query.name, ~sc_query.is_storage) :
            \A i \in Declared(ScopeOf(sc_found), sc_query.name, sc_query.is_storage) : i < j

\* a call from a nested scope returned a binding of an enclosing scope although
\* the nested scope declares the name in the other partition
C5_WitnessAcrossScopes ==
    /\ Queried
    /\ sc_found # 0
    /\ ScopeOf(sc_found) # sc_query.scope
    /\ InPartition(sc_found, sc_query.is_storage)
    /\ Declared(sc_query.scope, sc_query.name, ~sc_query.is_storage) # {}

\* C6: a scope that declares the name in the requested partition answers
\* get_variable with the last such binding of its declaration order; the
\* handle a call returned is a cell of a scope's own variables, so what its
\* holder writes through it is what get_variable returns afterwards.
C6_LastDeclaredWinsAsAlias ==
    /\ \A scope \in 1..Len(sc_scopes), name \in VariableNames, is_storage \in BOOLEAN :
            \A i \in Declared(scope, name, is_storage) :
                (\A j \in Declared(scope, name, is_storage) : j <= i) =>
                    get_variable(scope, name, is_storage) = sc_scopes[scope].variables[i]
    /\ Queried /\ sc_found # 0 =>
            /\ \E scope \in 1..Len(sc_scopes) :
                    \E i \in 1..Len(sc_scopes[scope].variables) :
                        sc_scopes[scope].variables[i] = sc_found
            /\ get_variable(sc_query.scope, sc_query.name, sc_query.is_storage) = sc_found
            /\ sc_mutated =>
                    sc_heap[get_variable(sc_query.scope, sc_query.name,
                                         sc_query.is_storage)].ty = "bool"

\* a call returned the second of two bindings its scope declares with the
\* name in the partition, and the holder wrote through the handle
C6_Witness ==
    /\ Queried
    /\ sc_mutated
    /\ Cardinality(Declared(sc_query.scope, sc_query.name, sc_query.is_storage)) >= 2
    /\ \E i \in Declared(sc_query.scope, sc_query.name, sc_query.is_storage) :
            /\ sc_scopes[sc_query.scope].variables[i] = sc_found
            /\ \A j \in Declared(sc_query.scope, sc_query.name, sc_query.is_storage) : j <= i

\* the scopes of the chain that declare the name in the partition
Holders(scope, name, is_storage) ==
    {s \in ScChain(scope) : Declared(s, name, is_storage) # {}}

\* C7: get_variable returns a binding exactly when a scope on the chain from
\* the scope to the root declares the name in the requested partition, and
\* the binding is one of the nearest such scope.
C7_NearestHolderOnChain ==
    \A scope \in 1..Len(sc_scopes), name \in VariableNames, is_storage \in BOOLEAN :
        LET found == get_variable(scope, name, is_storage)
            holders == Holders(scope, name, is_storage)
        IN  /\ found # 0 <=> holders # {}
            /\ found # 0 =>
                    \E s \in holders :
                        /\ \A t \in holders : ScDepth(t) <= ScDepth(s)
                        /\ \E i \in Declared(s, name, is_storage) :
                                sc_scopes[s].variables[i] = found

\* a call from a nested scope that declares the name in the other partition
\* only returned the binding of an enclosing scope
C7_Witness ==
    /\ Queried
    /\ sc_found # 0
    /\ ScopeOf(sc_found) # sc_query.scope
    /\ ScopeOf(sc_found) \in ScChain(sc_query.scope)
    /\ Declared(sc_query.scope, sc_query.name, ~sc_query.is_storage) # {}
    /\ Declared(sc_query.scope, sc_query.name, sc_query.is_storage) = {}

\* a call from a nested scope returned its own binding, hiding the binding of
\* the enclosing scope
C7_WitnessHides ==
    /\ Queried
    /\ sc_found # 0
    /\ ScopeOf(sc_found) = sc_query.scope
    /\ sc_scopes[sc_query.scope].parent # 0
    /\ Declared(sc_scopes[sc_query.scope].parent, sc_query.name, sc_query.is_storage) # {}

\* a call from a nested scope reached the root without a match
C7_WitnessNone ==
    /\ Queried
    /\ sc_found = 0
    /\ sc_scopes[sc_query.scope].parent # 0
    /\ \E cell \in 1..Len(sc_heap) : sc_heap[cell].name = sc_query.name

\* the module being walked with a block open whose state exists
MlInBlock(path) ==
    /\ ml_phase[path] = "in"
    /\ ml_blocks # <<>>
    /\ BlockFn(ml_blocks[Len(ml_blocks)]) \in MlFns(path)
    /\ HasBlockState(path, fn_signature(BlockFn(ml_blocks[Len(ml_blocks)])),
                     block_span(ml_blocks[Len(ml_blocks)]))

\* the module state visit_expr leaves when handed `expr` in the open block
MlAfterExpr(path, expr) ==
    ml_visit_expr(MlState(path), fn_signature(BlockFn(ml_blocks[Len(ml_blocks)])),
                  MlContextBlocks(ml_blocks[Len(ml_blocks)]), expr,
                  NextLine(path, ml_blocks[Len(ml_blocks)]))

QualifiedLogCall(arg) == MlCall("std", <<"logging", "log">>, <<NameExpr(arg)>>)

\* C11: wherever a block is open, visit_expr handed std::logging::log(v)
\* appends v's span to the block's logged list, whatever the module imports,
\* and handed n(v) for any recognized local name n it leaves the very same
\* module state, so leave_block reports the same for both.
C11_QualifiedCallLogsLikeImportedName ==
    \A path \in Paths :
        MlInBlock(path) =>
            \A arg \in {"x", "y"} :
                LET block == ml_blocks[Len(ml_blocks)]
                    after == MlAfterExpr(path, QualifiedLogCall(arg))
                    logged == after.fn_states[fn_signature(BlockFn(block))]
                                   .block_states[block_span(block)].logged
                IN  /\ logged = Append(MlBlockState(path, block).logged,
                                       Span(NextLine(path, block), arg))
                    /\ \A i \in 1..Len(MlState(path).log_names) :
                            MlAfterExpr(path,
                                MlCall(MlState(path).log_names[i], <<>>, <<NameExpr(arg)>>))
                                = after

\* a module without any import of the logging function left a block with Ok
\* in which a write's value was logged, and the write has no diagnostic
C11_Witness ==
    \E block \in MlAllBlocks :
        /\ ml_outcome[block] = "Ok"
        /\ MlState(BlockPath(block)).log_names = <<>>
        /\ LET state == MlBlockState(BlockPath(block), block)
           IN  \E i \in 1..Len(state.written) :
                /\ \E k \in 1..Len(state.logged) :
                        state.logged[k].text = state.written[i][2].text
                /\ MlDiagsFor(BlockPath(block), state.written[i][1]) = {}

\* the names the module's state recognizes as the logging function
LogNames(path) == {MlState(path).log_names[i] : i \in 1..Len(MlState(path).log_names)}

\* the logged list of the open block in a module state
LoggedIn(module_state) ==
    module_state.fn_states[fn_signature(BlockFn(ml_blocks[Len(ml_blocks)]))]
                .block_states[block_span(ml_blocks[Len(ml_blocks)])].logged

\* C12: once `use std::logging::log;` or `use std::logging::log as X;` has been
\* visited in a module, its local name is among the module's log_names in
\* every later state; wherever a block is open, a call n(v) is recorded as a
\* logging call if n is among the log_names, and changes nothing if n is the
\* local name of an import item that has not been visited yet.
C12_ImportedNameRecognizedFromImportOn ==
    \A path \in Paths :
        /\ \A item \in ml_walked[path] \cap MlLoggingUses :
                path \in DOMAIN ml_module_states /\ MlLocalName(item) \in LogNames(path)
        /\ MlInBlock(path) =>
            \A arg \in {"x", "y"} :
                /\ \A name \in LogNames(path) :
                        LoggedIn(MlAfterExpr(path, MlCall(name, <<>>, <<NameExpr(arg)>>)))
                            = Append(LoggedIn(MlState(path)),
                                     Span(NextLine(path, ml_blocks[Len(ml_blocks)]), arg))
                /\ \A item \in (MlUseItems(path) \cap MlLoggingUses) \ ml_walked[path] :
                        MlAfterExpr(path, MlCall(MlLocalName(item), <<>>, <<NameExpr(arg)>>))
                            = MlState(path)

\* the aliased import was visited after a call to the alias: the alias is
\* recognized now, and the write of a block that was left with Ok and holds
\* no logged argument has its diagnostic
C12_Witness ==
    /\ "early call" \in ml_walked["m2"]
    /\ "UseLogAs" \in ml_walked["m2"]
    /\ "emit" \in LogNames("m2")
    /\ \E block \in MlAllBlocks :
        /\ ml_outcome[block] = "Ok"
        /\ \A other \in MlAllBlocks : MlBlockState("m2", other).logged = <<>>
        /\ \E i \in 1..Len(MlBlockState("m2", block).written) :
                Cardinality(MlDiagsFor("m2", MlBlockState("m2", block).written[i][1])) = 1

\* a call to the alias was recorded in a block after the aliased import
C12_WitnessRecognized ==
    /\ "UseLogAs" \in ml_walked["m2"]
    /\ "early call" \notin ml_walked["m2"]
    /\ LogNames("m2") = {"emit"}
    /\ \E block \in MlAllBlocks : MlBlockState("m2", block).logged # <<>>

\* the usage counter of `span` in a map of usage states, -1 when it has none
CounterOf(usage_states, span) ==
    IF \E i \in 1..Len(usage_states) : usage_states[i].span = span
    THEN usage_states[CHOOSE i \in 1..Len(usage_states) : usage_states[i].span = span].count
    ELSE -1

UsageSpans(usage_states) == {usage_states[i].span : i \in 1..Len(usage_states)}

\* C13: in every step of the unused-import detector, a usage counter that
\* exists keeps existing with a value not below its previous value, and a
\* counter that did not exist before the step starts at 0 and belongs to a
\* leaf of the import item that this step's visit_use visited.
C13_CountersStartAtZeroAndNeverDecrease ==
    [][\A path \in DOMAIN ui_module_states :
        /\ path \in DOMAIN ui_module_states'
        /\ \A span \in UsageSpans(ui_module_states[path].usage_states) :
                CounterOf(ui_module_states'[path].usage_states, span)
                    >= CounterOf(ui_module_states[path].usage_states, span)
        /\ \A span \in UsageSpans(ui_module_states'[path].usage_states)
                        \ UsageSpans(ui_module_states[path].usage_states) :
                /\ CounterOf(ui_module_states'[path].usage_states, span) = 0
                /\ \E item \in ui_visited'[path] \ ui_visited[path] :
                        span \in LeafSpans(UseTreeOf(item))
        /\ Len(ui_module_states'[path].usage_states)
                = Cardinality(UsageSpans(ui_module_states'[path].usage_states))
      ]_vars

\* an import spelled like an earlier one was visited after the earlier one had
\* been counted: the earlier counter kept its value, the later one is 0
C13_Witness ==
    \E path \in DOMAIN ui_module_states :
        LET usage_states == ui_module_states[path].usage_states
        IN  \E i, j \in 1..Len(usage_states) :
                /\ i # j
                /\ usage_states[i].span.text = usage_states[j].span.text
                /\ usage_states[i].count > 0
                /\ usage_states[j].count = 0
                /\ ProbesIn(usage_states[j].born, usage_states[j].span.text) > 0

\* C14: a module's state record of the unused-import detector exists from the
\* first visit_module for the module on, and after leave_module has returned
\* the detector holds no state record for that module.
C14_StateDiscardedAtLeaveModule ==
    \A path \in Paths :
        /\ ui_phase[path] = "in" => path \in DOMAIN ui_module_states
        /\ ui_phase[path] = "done" /\ ui_outcome[path] # "none" =>
                path \notin DOMAIN ui_module_states

\* C15: for each detector and each module path, a state record that exists
\* keeps existing, one exists from the first visit_module for the path on, and
\* a visit_module for a path that already has a record leaves the detector's
\* records (counters, logging names, function states) as they were.
C15_OneRecordPerModuleKeptByVisitModule ==
    [][\A path \in Paths :
        /\ path \in DOMAIN ui_module_states => path \in DOMAIN ui_module_states'
        /\ path \in DOMAIN ml_module_states => path \in DOMAIN ml_module_states'
        /\ ui_phase'[path] # "new" => path \in DOMAIN ui_module_states'
        /\ ml_phase'[path] # "new" => path \in DOMAIN ml_module_states'
        /\ UiVisitModule(path) /\ path \in DOMAIN ui_module_states =>
                ui_module_states' = ui_module_states
        /\ MlVisitModule(path) /\ path \in DOMAIN ml_module_states =>
                ml_module_states' = ml_module_states
      ]_vars

\* both detectors are in m2 and may be handed visit_module again: the
\* missing-logs record holds a logging name and the state of function f, the
\* unused-import records hold a counter above 0
C15_Witness ==
    /\ ui_phase["m2"] = "in"
    /\ ml_phase["m2"] = "in"
    /\ ml_fn = "none"
    /\ ~panicked
    /\ MlState("m2").log_names # <<>>
    /\ MlState("m2").fn_states # <<>>
    /\ \E i \in 1..Len(UiState("m1").usage_states) : UiState("m1").usage_states[i].count > 0

\* the diagnostics of the sink about the import with declaration span `span`,
\* at its line if it has one
UiDiagsAbout(path, span) ==
    {k \in 1..Len(report) :
        /\ report[k].path = path
        /\ report[k].message = UnusedImportMessage(span.text)
        /\ span_to_line(path, span).ok => report[k].line = span_to_line(path, span).line}

\* the diagnostics of the sink about the storage write with field span `span`
MlDiagsAbout(path, span) ==
    {k \in 1..Len(report) :
        /\ report[k].path = path
        /\ report[k].message = MissingLogMessage(span.text)
        /\ span_to_line(path, span).ok => report[k].line = span_to_line(path, span).line}

\* entry i of leave_module's loop needs a line and has none
UiLineFails(path, i) ==
    /\ UiEntries(path)[i].count = 0
    /\ ~span_to_line(path, UiEntries(path)[i].span).ok

\* written entry i of leave_block's loop needs a line and has none
MlLineFails(path, block, i) ==
    /\ ~IsLogged(MlBlockState(path, block), MlBlockState(path, block).written[i][2])
    /\ ~span_to_line(path, MlBlockState(path, block).written[i][1]).ok

\* C16: when leave_module (unused-import) or leave_block (missing-logs) has
\* returned the error of a failed span_to_line, the sink holds no diagnostic
\* about the entry whose lookup failed nor about any entry after it in the
\* order of the loop, holds one about each entry before it that was due one,
\* and the walk of that module is over: no block is open and no further hook
\* of the module runs.
C16_FailedLineLookupStopsTheHook ==
    /\ \A path \in DOMAIN ui_module_states :
        ui_outcome[path] = "Err" =>
            /\ ui_phase[path] = "done"
            /\ \E k \in 1..Len(UiEntries(path)) :
                /\ UiLineFails(path, k)
                /\ \A i \in 1..(k - 1) :
                        /\ ~UiLineFails(path, i)
                        /\ Cardinality(UiDiagsAbout(path, UiEntries(path)[i].span))
                                = IF UiEntries(path)[i].count = 0 THEN 1 ELSE 0
                /\ \A i \in k..Len(UiEntries(path)) :
                        UiDiagsAbout(path, UiEntries(path)[i].span) = {}
    /\ \A block \in MlAllBlocks :
        ml_outcome[block] = "Err" =>
            LET path == BlockPath(block)
                written == MlBlockState(path, block).written
            IN  /\ ml_phase[path] = "done"
                /\ ml_blocks = <<>>
                /\ \E k \in 1..Len(written) :
                    /\ MlLineFails(path, block, k)
                    /\ \A i \in 1..(k - 1) :
                            /\ ~MlLineFails(path, block, i)
                            /\ Cardinality(MlDiagsAbout(path, written[i][1]))
                                    = IF IsLogged(MlBlockState(path, block), written[i][2])
                                      THEN 0 ELSE 1
                    /\ \A i \in k..Len(written) : MlDiagsAbout(path, written[i][1]) = {}

\* both hooks have failed, each with an entry due a diagnostic after the one
\* whose line lookup failed
C16_Witness ==
    /\ ui_outcome["m1"] = "Err"
    /\ \E k, i \in 1..Len(UiState("m1").usage_states) :
        /\ k < i
        /\ UiLineFails("m1", k)
        /\ UiState("m1").usage_states[i].count = 0
        /\ span_to_line("m1", UiState("m1").usage_states[i].span).ok
    /\ ml_outcome["f.body"] = "Err"
    /\ \E k, i \in 1..Len(MlBlockState("m2", "f.body").written) :
        /\ k < i
        /\ MlLineFails("m2", "f.body", k)
        /\ ~IsLogged(MlBlockState("m2", "f.body"), MlBlockState("m2", "f.body").written[i][2])
        /\ span_to_line("m2", MlBlockState("m2", "f.body").written[i][1]).ok

\* what a step appended to the sink
Appended == SubSeq(report', Len(report) + 1, Len(report'))

\* what the unused-import detector appends in a step when it walks alone: the
\* diagnostics of leave_module for the module the step leaves, from its own
\* usage counters
UiAppendsAlone ==
    IF \E path \in Paths : ui_phase[path] # "done" /\ ui_phase'[path] = "done"
    THEN LET path == CHOOSE p \in Paths : ui_phase[p] # "done" /\ ui_phase'[p] = "done"
         IN  report_unused(<<>>, path, ui_module_states[path].usage_states, 1).report
    ELSE <<>>

\* what the missing-logs detector appends in a step when it walks alone: the
\* diagnostics of leave_block for the block the step leaves, from its own
\* block state
MlAppendsAlone ==
    IF Len(ml_blocks') < Len(ml_blocks)
    THEN LET block == ml_blocks[Len(ml_blocks)]
         IN  report_unlogged(<<>>, BlockPath(block), MlBlockState(BlockPath(block), block), 1).report
    ELSE <<>>

TyScope == Len(sc_scopes)

\* the binding of the storage partition that `name` refers to from `scope`:
\* the last one declared by the nearest scope of the chain that declares one
StorageBinding(scope, name) ==
    LET nearest == CHOOSE s \in Holders(scope, name, TRUE) :
                        \A t \in Holders(scope, name, TRUE) : ScDepth(t) <= ScDepth(s)
        last == CHOOSE i \in Declared(nearest, name, TRUE) :
                        \A j \in Declared(nearest, name, TRUE) : j <= i
    IN  sc_scopes[nearest].variables[last]

IsStorageProjection(expr) ==
    /\ expr.kind = "FieldProjection"
    /\ expr.sub[1] = ExprPath("storage", <<>>)

\* C18: get_expr_ty of `storage.NAME`, where the storage partition has a
\* binding NAME reachable from the scope, is the path type
\* core::storage::StorageKey<T> whose one generic argument T is get_full_ty of
\* the declared type of that storage binding, and is not the declared type
\* itself; the call returns no type exactly when get_full_ty returns none.
C18_StorageProjectionIsStorageKeyOfFullTy ==
    IsStorageProjection(ty_expr) /\ Holders(TyScope, ty_expr.name, TRUE) # {} =>
        LET declared == sc_heap[StorageBinding(TyScope, ty_expr.name)].ty
        IN  IF get_full_ty(declared) = Abort
            THEN ty_result = Abort
            ELSE /\ ty_result.kind = "Path"
                 /\ ty_result.root = <<>>
                 /\ ty_result.name = "core"
                 /\ ty_result.generics = <<>>
                 /\ Len(ty_result.suffix) = 2
                 /\ ty_result.suffix[1] = [name |-> "storage", generics |-> <<>>]
                 /\ ty_result.suffix[2].name = "StorageKey"
                 /\ ty_result.suffix[2].generics = <<get_full_ty(declared)>>
                 /\ ty_result # declared

\* `storage.a` was typed from a scope that declares a local `a` of another
\* type after (or nearer than) the storage binding `a`
C18_Witness ==
    /\ IsStorageProjection(ty_expr)
    /\ ty_expr.name = "a"
    /\ ty_result # Abort
    /\ Holders(TyScope, "a", TRUE) # {}
    /\ sc_heap[StorageBinding(TyScope, "a")].ty.kind = "Tuple"
    /\ get_variable(TyScope, "a", FALSE) # 0
    /\ get_variable(TyScope, "a", FALSE) > StorageBinding(TyScope, "a")
    /\ sc_heap[get_variable(TyScope, "a", FALSE)].ty # sc_heap[StorageBinding(TyScope, "a")].ty

\* an index expression over an array construction with at least one element,
\* all of whose elements have the same inferred type
IsIndexOfTypedArray(expr) ==
    /\ expr.kind = "Index"
    /\ expr.sub[1].kind = "Array"
    /\ expr.sub[1].sub # <<>>
    /\ \A i \in 1..Len(expr.sub[1].sub) :
            /\ get_expr_ty(TyScope, expr.sub[1].sub[i]) # Abort
            /\ get_expr_ty(TyScope, expr.sub[1].sub[i]) = get_expr_ty(TyScope, expr.sub[1].sub[1])

\* C19: get_expr_ty of an index expression over an array construction whose
\* elements have inferred type T returns T and does not abort.
C19_IndexOfArrayConstructionIsElementTy ==
    IsIndexOfTypedArray(ty_expr) =>
        /\ ty_result # Abort
        /\ ty_result = get_expr_ty(TyScope, ty_expr.sub[1].sub[1])

\* a projection of field ty_expr.index from a tuple construction
IsProjectionOfTuple(expr) ==
    /\ expr.kind = "TupleFieldProjection"
    /\ expr.sub[1].kind = "Tuple"

\* the elements of the tuple construction the call projected from
TyElems == ty_expr.sub[1].sub

AllElemsTyped ==
    \A j \in 1..Len(TyElems) : get_expr_ty(TyScope, TyElems[j]) # Abort

\* projecting from the empty tuple, from a type that is no tuple, or a field
\* past the last one returns no type
ProjectionAbortsOutsideTuple ==
    /\ IsProjectionOfTuple(ty_expr) /\ (TyElems = <<>> \/ ty_expr.index >= Len(TyElems)) =>
            ty_result = Abort
    /\ ty_expr.kind = "TupleFieldProjection"
            /\ get_expr_ty(TyScope, ty_expr.sub[1]).kind \notin {"Tuple", "abort"} =>
            ty_result = Abort

\* C20 as stated: projecting field i of a tuple construction (e0, .., en), i in
\* 0..n, returns get_expr_ty(ei); projecting from the empty tuple, from a
\* non-tuple type or with i > n aborts.
C20_ProjectionIsElementTy ==
    /\ IsProjectionOfTuple(ty_expr) /\ ty_expr.index < Len(TyElems) =>
            ty_result = get_expr_ty(TyScope, TyElems[ty_expr.index + 1])
    /\ ProjectionAbortsOutsideTuple

\* C20 as amended: projecting field i of a tuple construction (e0, .., en), i
\* in 0..n, returns get_expr_ty(ei) when get_expr_ty returns a type for every
\* element of the construction, and aborts when it returns none for some
\* element; projecting from the empty tuple, from a non-tuple type or with
\* i > n aborts.
C20_ProjectionIsElementTyWhenAllTyped ==
    /\ IsProjectionOfTuple(ty_expr) /\ ty_expr.index < Len(TyElems) =>
            ty_result = IF AllElemsTyped
                        THEN get_expr_ty(TyScope, TyElems[ty_expr.index + 1])
                        ELSE Abort
    /\ ProjectionAbortsOutsideTuple

\* the last field of (1, true, "s") was projected: the type is str
C20_Witness ==
    /\ IsProjectionOfTuple(ty_expr)
    /\ Len(TyElems) = 3
    /\ ty_expr.index = 2
    /\ ty_result = TLeaf("StringSlice")

\* the type of a block from its trailing expression, if it has one
TrailingTy(block) ==
    IF block.sub = <<>> THEN empty_tuple_ty ELSE get_expr_ty(TyScope, block.sub[1])

\* C21: get_expr_ty of a block is the type of its trailing expression, unit
\* when it has none; of an if expression, that of the trailing expression of
\* its then block or unit; of a match expression, that of the trailing
\* expression of its first branch's block (or of the first branch's
\* expression), unit when the block has none or the match has no branch.
C21_BlockIfMatchTypedByTrailingExpr ==
    /\ ty_expr.kind = "Block" => ty_result = TrailingTy(ty_expr)
    /\ ty_expr.kind = "If" => ty_result = TrailingTy(ty_expr.sub[1])
    /\ ty_expr.kind = "Match" =>
            ty_result = IF ty_expr.sub = <<>> THEN empty_tuple_ty
                        ELSE IF ty_expr.sub[1].kind = "Block" THEN TrailingTy(ty_expr.sub[1])
                        ELSE get_expr_ty(TyScope, ty_expr.sub[1])

\* a match whose first branch is a block ending in "s" was typed str
C21_Witness ==
    /\ ty_expr.kind = "Match"
    /\ ty_expr.sub # <<>>
    /\ ty_expr.sub[1].kind = "Block"
    /\ ty_expr.sub[1].sub # <<>>
    /\ ty_result = TLeaf("StringSlice")

\* an if whose then block has no trailing expression was typed unit although
\* its else block ends in an expression
C21_WitnessUnit ==
    /\ ty_expr.kind = "If"
    /\ Len(ty_expr.sub) = 2
    /\ ty_expr.sub[1].sub = <<>>
    /\ ty_expr.sub[2].sub # <<>>
    /\ ty_result = empty_tuple_ty

\* an unresolved path type sits in ty itself or, below types the resolver
\* misses, in a tuple element, an array element or a pointer, slice or
\* reference target
RECURSIVE HoldsUnresolvedPath(_)
HoldsUnresolvedPath(ty) ==
    /\ ~resolve_ty(ty).some
    /\ \/ ty.kind = "Path"
       \/ /\ ty.kind \in {"Tuple", "Array", "Ptr", "Slice", "Ref"}
          /\ \E i \in 1..Len(ty.elems) : HoldsUnresolvedPath(ty.elems[i])

\* C22: get_full_ty returns a type the resolver resolves unchanged; it aborts
\* when the resolver misses and the type is or holds, at any depth, an
\* unresolved path type; it returns string-slice, string-array, inferred and
\* never types unchanged; and whatever it returns is the type it was given,
\* never a guessed or partially qualified one.
C22_FullTyUnchangedOrAbort ==
    ty_expr.kind = "get_full_ty" =>
        LET ty == ty_expr.sub[1] IN
        /\ resolve_ty(ty).some => ty_result = ty
        /\ HoldsUnresolvedPath(ty) => ty_result = Abort /\ panicked
        /\ ty.kind \in {"StringSlice", "StringArray", "Infer", "Never"} => ty_result = ty
        /\ ty_result \in {ty, Abort}
        /\ ty_result = Abort => HoldsUnresolvedPath(ty)

\* get_full_ty of `&(str, [Missing; n])` aborted: the unresolved path is two
\* levels below the reference
C22_Witness ==
    /\ ty_expr = FullTyCall(TBox("Ref", TTuple(<<TLeaf("StringSlice"),
                                   TArray(TPlain("Missing"), NameExpr("n"))>>)))
    /\ ty_result = Abort

\* get_full_ty of `(Owner, str)` returned `(Owner, str)`
C22_WitnessUnchanged ==
    /\ ty_expr = FullTyCall(TTuple(<<TPlain("Owner"), TLeaf("StringSlice")>>))
    /\ ty_result = TTuple(<<TPlain("Owner"), TLeaf("StringSlice")>>)

\* the sum of the counters, from entry i on, of the entries spelled `text`
RECURSIVE CountSum(_, _, _)
CountSum(usage_states, text, i) ==
    IF i > Len(usage_states)
    THEN 0
    ELSE (IF usage_states[i].span.text = text THEN usage_states[i].count ELSE 0)
            + CountSum(usage_states, text, i + 1)

UsageTexts(state) ==
    {state.usage_states[i].span.text : i \in 1..Len(state.usage_states)}
        \cup DOMAIN state.probes

\* C23: each candidate reference increments exactly one usage counter, that
\* of a registered import spelled like the reference, when there is one, and
\* no counter otherwise: in every module state the counters of the imports
\* spelled `text` add up to the number of references spelled `text` that were
\* checked while such an import was registered, so with two imports of the
\* same spelling one reference never counts on both.
C23_OneCounterPerReference ==
    \A path \in DOMAIN ui_module_states :
        LET state == ui_module_states[path] IN
        \A text \in UsageTexts(state) :
            CountSum(state.usage_states, text, 1) = Probes(state, text)

\* `use a::b::C;` and `use a::B as C;` are registered and one reference C was
\* checked: one of the two counters is 1, the other 0
C23_Witness ==
    /\ "m1" \in DOMAIN ui_module_states
    /\ LET state == ui_module_states["m1"] IN
       /\ Probes(state, "C") = 1
       /\ \E i, j \in 1..Len(state.usage_states) :
            /\ i # j
            /\ state.usage_states[i].span.text = "C" /\ state.usage_states[i].count = 1
            /\ state.usage_states[j].span.text = "C" /\ state.usage_states[j].count = 0
            /\ ProbesIn(state.usage_states[i].born, "C") = 0
            /\ ProbesIn(state.usage_states[j].born, "C") = 0

\* the calls of the catalog that name the logging function of module `path`
\* and have no argument or several
OtherArityCalls(path) ==
    {expr \in MlExprs : MlNamesLog(path, expr) /\ Len(expr.sub) # 2}

\* C24: only a call with exactly one argument is recorded as a logging call.
\* Wherever a block is open, visit_expr handed a call of a recognized logging
\* name or of `std::logging::log` with no argument or with several leaves the
\* module state as it is, and any call that changes it has one argument; the
\* step that delivers such a call changes neither a module state nor the
\* sink; and a write of a block left with Ok whose value is in no recorded
\* logging call has its diagnostic.
C24_OnlyOneArgumentCallsRecorded ==
    /\ [](\A path \in Paths :
            MlInBlock(path) =>
                /\ \A expr \in OtherArityCalls(path) : MlAfterExpr(path, expr) = MlState(path)
                /\ \A expr \in MlExprs :
                        MlAfterExpr(path, expr) # MlState(path) => Len(expr.sub) = 2)
    /\ [][\A path \in Paths :
            /\ "other arity call" \notin ml_walked[path]
            /\ "other arity call" \in ml_walked'[path]
            => ml_module_states' = ml_module_states /\ report' = report]_vars
    /\ [](\A path \in Paths :
            "other arity call" \in ml_walked[path] =>
                \A block \in MlAllBlocks :
                    ml_outcome[block] = "Ok" /\ BlockPath(block) = path =>
                        LET state == MlBlockState(path, block)
                        IN  \A i \in 1..Len(state.written) :
                                (\A k \in 1..Len(state.logged) :
                                    state.logged[k].text # state.written[i][2].text)
                                => Cardinality(MlDiagsFor(path, state.written[i][1])) = 1)

\* the body of f recorded the write `storage.owner = x`, was handed a call of
\* the logging function with the arguments x and y, recorded no logging call
\* and was left with Ok: the write is reported
C24_Witness ==
    /\ "other arity call" \in ml_walked["m2"]
    /\ ml_outcome["f.body"] = "Ok"
    /\ LET state == MlBlockState("m2", "f.body")
       IN  /\ state.logged = <<>>
           /\ Len(state.written) = 1
           /\ state.written[1][2].text = "x"
           /\ Cardinality(MlDiagsFor("m2", state.written[1][1])) = 1

\* the messages of the two detectors
UiMessages == {UnusedImportMessage(text) : text \in {"B", "C"}}
MlMessages == {MissingLogMessage(field) : field \in {"owner", "lost"}}

\* C25: diagnostics are appended only by exit hooks.  A step that changes the
\* sink keeps what it held and appends to it, and is either leave_module of
\* the unused-import detector, appending messages of that detector only, or
\* leave_block of the missing-logs detector, appending messages of that
\* detector only; every other hook of either detector leaves the sink as it is.
C25_OnlyExitHooksAppend ==
    [][report' # report =>
        /\ Len(report') > Len(report)
        /\ SubSeq(report', 1, Len(report)) = report
        /\ \/ /\ \E path \in Paths : ui_phase[path] # "done" /\ ui_phase'[path] = "done"
              /\ ui_module_states' = ui_module_states
              /\ ml_vars' = ml_vars
              /\ \A k \in 1..Len(Appended) : Appended[k].message \in UiMessages
           \/ /\ ml_blocks # <<>>
              /\ ml_outcome[ml_blocks[Len(ml_blocks)]] = "none"
              /\ ml_outcome'[ml_blocks[Len(ml_blocks)]] # "none"
              /\ ml_module_states' = ml_module_states
              /\ ui_vars' = ui_vars
              /\ \A k \in 1..Len(Appended) : Appended[k].message \in MlMessages
      ]_vars

\* the unused-import detector counted a reference in m1 and its leave_module
\* reported another import: the sink holds what leave_module appended
C25_Witness ==
    /\ ui_phase["m1"] = "done"
    /\ report # <<>>
    /\ \A k \in 1..Len(report) : report[k].message \in UiMessages
    /\ \E i \in 1..Len(UiState("m1").usage_states) : UiState("m1").usage_states[i].count > 0

\* the missing-logs detector recorded a write and a logging call in the body
\* of f and its leave_block reported the write
C25_WitnessBlock ==
    /\ ml_outcome["f.body"] = "Ok"
    /\ report # <<>>
    /\ \A k \in 1..Len(report) : report[k].message \in MlMessages
    /\ MlBlockState("m2", "f.body").logged # <<>>

\* the state entries the detectors hold
MlFnEntries(path) == DOMAIN MlState(path).fn_states
MlBlockEntries(path) ==
    UNION {DOMAIN MlState(path).fn_states[signature].block_states :
                signature \in MlFnEntries(path)}

\* every hook delivered so far came after the creating hooks of its module,
\* function and block: the state entries are those visit_module, visit_fn
\* and visit_block created, and those of the units being walked are there
EntriesAreOfCreatingHooks ==
    /\ DOMAIN ui_module_states = {path \in Paths : ui_phase[path] # "new"}
    /\ DOMAIN ml_module_states = {path \in Paths : ml_phase[path] # "new"}
    /\ \A path \in Paths :
        /\ MlFnEntries(path) = {fn_signature(fn) : fn \in ml_walked[path] \cap MlFns(path)}
        /\ MlBlockEntries(path) =
                {block_span(block) : block \in {b \in ml_walked[path] \cap MlAllBlocks :
                                                    BlockFn(b) \in MlFns(path)}}
        /\ ml_phase[path] = "in" /\ ml_fn # "none" =>
                /\ HasFnState(path, fn_signature(ml_fn))
                /\ \A i \in 1..Len(ml_blocks) :
                        HasBlockState(path, fn_signature(ml_fn), block_span(ml_blocks[i]))

\* a creating hook of the walk's position has not been delivered: the module
\* at hand was not entered, no function is entered, or a block is yet to open
CreatingHookPending ==
    \/ \E path \in Paths : UiActive(path) /\ ui_phase[path] = "new" /\ InitML
    \/ /\ InitUI
       /\ \E path \in Paths :
            /\ MlActive(path)
            /\ \/ ml_phase[path] = "new"
               \/ ml_fn = "none" /\ MlFns(path) \ ml_walked[path] # {}
               \/ \E block \in MlAllBlocks \ ml_walked[path] : BlockFn(block) \in MlFns(path)

\* C26: in a walk that delivers visit_module before the other hooks of a
\* module, visit_fn before the hooks of its blocks and visit_block before the
\* visit_statement, visit_expr and leave_block of the block, every hook finds
\* its module, function and block state: while no hook has aborted, the
\* state entries are exactly those the creating hooks made and those of the
\* units being walked exist.  A hook aborts only where a creating hook of
\* the position was not delivered; the abort changes no detector state nor
\* the sink, and no hook runs after it.
C26_AbortOnlyOutsideOrderedWalk ==
    /\ [](EntriesAreOfCreatingHooks)
    /\ [][~panicked]_vars
    /\ [][panicked' =>
            /\ CreatingHookPending
            /\ ui_module_states' = ui_module_states
            /\ ml_module_states' = ml_module_states
            /\ report' = report]_vars

\* an ordered walk of f reached the nodes of the block nested in its body,
\* recorded a write there, and no hook aborted
C26_Witness ==
    /\ ~panicked
    /\ ml_blocks = <<"f.body", "f.then">>
    /\ MlBlockState("m2", "f.then").written # <<>>

\* the walk delivered a hook of f's body without visit_fn: the hook aborted
C26_WitnessAbort ==
    /\ panicked
    /\ ml_phase["m2"] = "in"
    /\ ml_walked["m2"] \cap ({"f"} \cup MlAllBlocks) = {}

\* the module whose hooks a detector is being handed
UiAt == IF ui_phase["m1"] # "done" THEN "m1" ELSE "m2"
MlAt == IF ml_phase["m1"] # "done" THEN "m1" ELSE "m2"

\* the record a detector holds for a module, <<>> when it holds none
RecordOf(module_states, path) ==
    IF path \in DOMAIN module_states THEN <<module_states[path]>> ELSE <<>>

\* the diagnostics about a module, in the order of the sink
DiagsOfPath(entries, path) == SelectSeq(entries, LAMBDA entry : entry.path = path)

\* C27: within one detector instance the hooks delivered for a module change
\* the record of that module only and the diagnostics about that module
\* only: the record and the diagnostics of every other module are after the
\* step what they were before it.  So a reference in a module spelled like an
\* import of another module leaves that module's counters alone, and a
\* logging import or logging call in a module leaves the diagnostics of the
\* other alone; a name one module imports for the logging function is no
\* logging name of the other.
C27_HooksChangeOwnModuleOnly ==
    /\ [][\A path \in Paths :
            /\ path # UiAt =>
                    RecordOf(ui_module_states', path) = RecordOf(ui_module_states, path)
            /\ path # MlAt =>
                    RecordOf(ml_module_states', path) = RecordOf(ml_module_states, path)
            /\ path # (IF InitML /\ ml_vars' = ml_vars THEN UiAt ELSE MlAt) =>
                    DiagsOfPath(report', path) = DiagsOfPath(report, path)
         ]_vars
    /\ [](\A path \in Paths :
            LogNames(path) \subseteq
                {MlLocalName(item) : item \in ml_walked[path] \cap MlLoggingUses})

\* m1 imported C, saw no reference and was left with its diagnostic; m2
\* imported C too and counted a reference C: the counter of m1 is still 0 and
\* the sink holds the diagnostic about m1 and none about m2
C27_Witness ==
    /\ ui_phase["m1"] = "done" /\ ui_phase["m2"] = "done"
    /\ \E i \in 1..Len(UiState("m1").usage_states) :
        /\ UiState("m1").usage_states[i].span = Span(1, "C")
        /\ UiState("m1").usage_states[i].count = 0
    /\ Len(UiState("m2").usage_states) = 1
    /\ UiState("m2").usage_states[1].span = Span(6, "C")
    /\ UiState("m2").usage_states[1].count > 0
    /\ Len(DiagsOfPath(report, "m1")) = 1
    /\ DiagsOfPath(report, "m2") = <<>>

\* m1 imported the logging function as `log`; m2, which imports it under
\* another name only, recorded a write and no logging call in the body of f
\* and the write is reported
C27_WitnessLog ==
    /\ "log" \in LogNames("m1")
    /\ "log" \notin LogNames("m2")
    /\ ml_outcome["f.body"] = "Ok"
    /\ MlBlockState("m2", "f.body").logged = <<>>
    /\ Len(DiagsOfPath(report, "m2")) = 1
    /\ DiagsOfPath(report, "m1") = <<>>

\* the logging calls of a block state whose argument is spelled like the
\* value of written entry i
LogsOf(state, i) ==
    {k \in 1..Len(state.logged) : state.logged[k].text = state.written[i][2].text}

\* C28: the check at block exit does not depend on the order of the write
\* and the logging call.  In a block left with Ok, a write has no diagnostic
\* when a logging call with its value was recorded before it and none when
\* one was recorded after it; one logging call suppresses the diagnostic of
\* every write of the block with that value; and for every block state, the
\* diagnostics leave_block derives are the same for every order of the
\* recorded logging calls.
C28_BlockCheckIgnoresOrder ==
    /\ \A block \in MlAllBlocks :
        ml_outcome[block] = "Ok" =>
            LET path == BlockPath(block)
                state == MlBlockState(path, block)
            IN  /\ \A i \in 1..Len(state.written) :
                    /\ (\E k \in LogsOf(state, i) : state.logged[k].pos < state.written[i][1].pos)
                            => MlDiagsFor(path, state.written[i][1]) = {}
                    /\ (\E k \in LogsOf(state, i) : state.logged[k].pos > state.written[i][1].pos)
                            => MlDiagsFor(path, state.written[i][1]) = {}
                /\ \A k \in 1..Len(state.logged) :
                        \A i \in 1..Len(state.written) :
                            k \in LogsOf(state, i) => MlDiagsFor(path, state.written[i][1]) = {}
    /\ \A path \in Paths, block \in MlAllBlocks :
            LET state == MlBlockState(path, block)
            IN  \A logged \in Orders(state.logged) :
                    report_unlogged(<<>>, path, [state EXCEPT !.logged = logged], 1)
                        = report_unlogged(<<>>, path, state, 1)

\* the body of f recorded the logging call of x and then the write of x, and
\* was left with Ok without a diagnostic
C28_Witness ==
    /\ ml_outcome["f.body"] = "Ok"
    /\ LET state == MlBlockState("m2", "f.body")
       IN  /\ Len(state.logged) = 1 /\ Len(state.written) = 1
           /\ state.logged[1].text = state.written[1][2].text
           /\ state.logged[1].pos < state.written[1][1].pos
    /\ report = <<>>

\* the body of f recorded a write of x, the logging call of x and another
\* write of x, and was left with Ok without a diagnostic
C28_WitnessTwoWrites ==
    /\ ml_outcome["f.body"] = "Ok"
    /\ LET state == MlBlockState("m2", "f.body")
       IN  /\ Len(state.logged) = 1 /\ Len(state.written) = 2
           /\ \A i \in 1..2 : state.logged[1].text = state.written[i][2].text
           /\ state.written[1][1].pos < state.logged[1].pos
           /\ state.logged[1].pos < state.written[2][1].pos
    /\ report = <<>>

=============================================================================
